---- MODULE Spec2Model ----
(***************************************************************************)
(* A model of pydantic-settings-export: the extraction of descriptors      *)
(* (models.py), the generators (generators/*.py) and the run coordinator   *)
(* (exporter.py).                                                          *)
(*                                                                         *)
(* A Python str is a sequence of one-character strings, so that upper(),   *)
(* strip(), join and concatenation are computed rather than assumed.  A    *)
(* character SANY cannot read in a string is written as its code point:    *)
(* "U+0060" is the backquote.  An Optional[str] is a sequence of at most   *)
(* one str: None is <<>> and a present value s is <<s>>.                   *)
(*                                                                         *)
(* The texts of the model hold no carriage return, so write_text followed  *)
(* by read_text gives the text back; the paths hold no "..", no symbolic   *)
(* link, and two paths name the same file only when their parts from the   *)
(* root are equal.                                                         *)
(*                                                                         *)
(* Three specifications share the variables: Spec (Exporter.run_all on a   *)
(* filesystem), SpecRegistry (the definition of generator classes) and     *)
(* SpecRender (extraction and rendering of one model).                     *)
(***************************************************************************)
EXTENDS Integers, Sequences, FiniteSets, TLC

VARIABLES
    ALL_GENERATORS,  \* AbstractGenerator.ALL_GENERATORS: the registered classes
    classdefs,       \* number of class statements executed so far
    lastdef,         \* outcome of the last statement on the registry
    fs,              \* the filesystem: absolute path (its parts) -> entry
    settings,        \* Exporter.settings (PSESettings)
    generators,      \* Exporter.generators: the generator instances
    models,          \* the models given to run_all
    pc,              \* position of run_all: "idle" or "running"
    settings_infos,  \* run_all's local list of descriptors
    gi,              \* index of the generator run_all runs next
    result,          \* the paths run_all has collected so far
    calls,           \* the calls of generator.run made by the current run_all
    runs,            \* the run_all calls that have ended, oldest first
    touched,         \* TRUE when something else wrote to fs since the last run_all
    warnings,        \* warnings.warn calls of the current run_all
    subject,         \* the model that is extracted and rendered
    outcome          \* what extraction or rendering returned for subject

vars == <<ALL_GENERATORS, classdefs, lastdef, fs, settings, generators, models, pc,
          settings_infos, gi, result, calls, runs, touched, warnings, subject, outcome>>

registryVars == <<ALL_GENERATORS, classdefs, lastdef>>
exportVars == <<fs, settings, generators, models, pc, settings_infos, gi, result,
                calls, runs, touched, warnings>>
pureVars == <<subject, outcome>>

-----------------------------------------------------------------------------
(* Bounds of the model. *)

MaxGenerators == 2   \* generator instances given to the Exporter
MaxRuns == 2         \* run_all calls in a behaviour
MaxClassDefs == 3    \* generator subclass definitions in a behaviour
MaxDepth == 2        \* nesting depth of the models that are extracted
MaxFields == 2       \* fields of a model that is extracted without nesting
MaxConfigs == 2      \* configurations of one generator in the settings of the CLI
MaxInfos == 2        \* descriptors given to one call of generate

-----------------------------------------------------------------------------
(* Python values shared by all parts. *)

None == <<>>
Some(s) == <<s>>
IsNone(o) == Len(o) = 0

Max(a, b) == IF a >= b THEN a ELSE b

LowerChars == <<"a","b","c","d","e","f","g","h","i","j","k","l","m",
                "n","o","p","q","r","s","t","u","v","w","x","y","z">>
UpperChars == <<"A","B","C","D","E","F","G","H","I","J","K","L","M",
                "N","O","P","Q","R","S","T","U","V","W","X","Y","Z">>

\* str.upper() on one character.
UpperChar(c) ==
    IF \E i \in 1..Len(LowerChars) : LowerChars[i] = c
    THEN UpperChars[CHOOSE i \in 1..Len(LowerChars) : LowerChars[i] = c]
    ELSE c

\* str.upper()
Upper(s) == [i \in 1..Len(s) |-> UpperChar(s[i])]

\* The characters str.strip() removes.
IsSpace(c) == c \in {" ", "\n", "\t", "\r", "\f"}

\* str.lstrip()
LStrip(s) ==
    IF \A i \in 1..Len(s) : IsSpace(s[i]) THEN <<>>
    ELSE SubSeq(s, CHOOSE i \in 1..Len(s) :
                        ~IsSpace(s[i]) /\ \A j \in 1..(i - 1) : IsSpace(s[j]),
                Len(s))

\* str.rstrip()
RStrip(s) ==
    IF \A i \in 1..Len(s) : IsSpace(s[i]) THEN <<>>
    ELSE SubSeq(s, 1, CHOOSE i \in 1..Len(s) :
                        ~IsSpace(s[i]) /\ \A j \in (i + 1)..Len(s) : IsSpace(s[j]))

\* str.strip()
Strip(s) == LStrip(RStrip(s))

\* sep.join(parts)
RECURSIVE JoinStr(_, _)
JoinStr(sep, parts) ==
    IF parts = <<>> THEN <<>>
    ELSE IF Len(parts) = 1 THEN parts[1]
    ELSE parts[1] \o sep \o JoinStr(sep, Tail(parts))

\* c * n
Repeat(c, n) == [i \in 1..n |-> c]

\* "".join of a list of lists: the concatenation.
RECURSIVE Flatten(_)
Flatten(ss) == IF ss = <<>> THEN <<>> ELSE Head(ss) \o Flatten(Tail(ss))

Range(s) == {s[i] : i \in 1..Len(s)}

Digits == <<"0","1","2","3","4","5","6","7","8","9">>

\* str(n) for an int n >= 0.
RECURSIVE IntToStr(_)
IntToStr(n) ==
    IF n < 10 THEN <<Digits[n + 1]>> ELSE IntToStr(n \div 10) \o <<Digits[(n % 10) + 1]>>

\* sorted(s) for a set of ints.
RECURSIVE SortedInts(_)
SortedInts(S) ==
    IF S = {} THEN <<>>
    ELSE LET m == CHOOSE x \in S : \A y \in S : x <= y
         IN <<m>> \o SortedInts(S \ {m})

-----------------------------------------------------------------------------
(* Paths (pathlib.Path): absolute or relative, and the parts after the    *)
(* anchor.  "." is the relative path with no parts.                        *)

AbsPath(parts) == [abs |-> TRUE, parts |-> parts]
RelPath(parts) == [abs |-> FALSE, parts |-> parts]

\* Path.is_absolute()
IsAbsolute(p) == p.abs

\* a / b: an absolute right operand replaces the left one.
PathJoin(a, b) == IF b.abs THEN b ELSE [abs |-> a.abs, parts |-> a.parts \o b.parts]

\* Path.cwd() of the process.
Cwd == AbsPath(<<"w">>)

\* Path.absolute().resolve(); the paths of the model hold no "..", no symlink.
AbsoluteResolve(p) == PathJoin(Cwd, p)

\* Path.parent
Parent(p) == [abs |-> p.abs, parts |-> SubSeq(p.parts, 1, Len(p.parts) - 1)]

\* PurePath.is_relative_to(other): other is a leading run of whole components.
is_relative_to(p, other) ==
    /\ p.abs = other.abs
    /\ Len(other.parts) <= Len(p.parts)
    /\ SubSeq(p.parts, 1, Len(other.parts)) = other.parts

\* PurePath.relative_to(other), for a path that is relative to other.
relative_to(p, other) == RelPath(SubSeq(p.parts, Len(other.parts) + 1, Len(p.parts)))

\* Path(s) for a str that holds no separator: "" and "." are the path with
\* no parts.
PathOfStr(str) == IF str \in {"", "."} THEN RelPath(<<>>) ELSE RelPath(<<str>>)

-----------------------------------------------------------------------------
(* models.py: values, serialisation, type labels.                          *)

\* Python values that occur as defaults and examples.
Undefined == [t |-> "undefined"]              \* PydanticUndefined
NoneValue == [t |-> "none"]                   \* None
IntValue(n) == [t |-> "int", v |-> n]
BoolValue(b) == [t |-> "bool", v |-> b]
StrValue(s) == [t |-> "str", v |-> s]
\* A set of ints: v lists its elements in the order this process iterates it.
SetValue(order) == [t |-> "set", v |-> order]
ListValue(l) == [t |-> "list", v |-> l]       \* a list of ints
\* An object the serializer rejects (PydanticSerializationError); v is str(value).
ObjValue(s) == [t |-> "object", v |-> s]
\* An instance of a class pydantic can make no schema for: TypeAdapter(type)
\* raises PydanticSchemaGenerationError; v is str(value).
ArbitraryValue(s) == [t |-> "arbitrary", v |-> s]

\* TypeAdapter(type).dump_json(value).decode(): compact JSON.  The strings of the
\* model hold no character that JSON escapes.
DumpJson(value) ==
    CASE value.t = "none" -> <<"n","u","l","l">>
      [] value.t = "int" -> IntToStr(value.v)
      [] value.t = "bool" ->
            IF value.v THEN <<"t","r","u","e">> ELSE <<"f","a","l","s","e">>
      [] value.t = "str" -> <<"\"">> \o value.v \o <<"\"">>
      [] value.t = "list" ->
            <<"[">> \o JoinStr(<<",">>, [i \in 1..Len(value.v) |-> IntToStr(value.v[i])])
                \o <<"]">>

\* value_to_jsonable(value) raises: the only exception it catches is
\* PydanticSerializationError.
ValueToJsonableRaises(value) == value.t = "arbitrary"

\* What value_to_jsonable(value) returns when it returns.
value_to_jsonable(value) ==
    IF value.t = "object" THEN value.v    \* except PydanticSerializationError: str(value)
    ELSE DumpJson(value)

\* list(value) for a set: its elements in iteration order.
\* PSESettings as default_path reads it: [root_dir, relative_to].
RelativeToSettings(replace_abs_paths, alias) == [replace_abs_paths |-> replace_abs_paths, alias |-> alias]

\* The home directory is tried before the project root.
default_path_home_first(default, global_settings, home) ==
    IF ~IsAbsolute(default) THEN default
    ELSE IF is_relative_to(default, AbsoluteResolve(home))
    THEN PathJoin(PathOfStr("~"), relative_to(default, AbsoluteResolve(home)))
    ELSE IF /\ ~IsNone(global_settings)
            /\ global_settings[1].relative_to.replace_abs_paths
            /\ is_relative_to(default, AbsoluteResolve(global_settings[1].root_dir))
    THEN PathJoin(PathOfStr(global_settings[1].relative_to.alias),
                  relative_to(default, AbsoluteResolve(global_settings[1].root_dir)))
    ELSE default

\* default_path(default, global_settings); home is Path.home().
default_path(default, global_settings, home) ==
    LET rooted ==
            IF /\ ~IsNone(global_settings)
               /\ global_settings[1].relative_to.replace_abs_paths
               /\ is_relative_to(default, AbsoluteResolve(global_settings[1].root_dir))
            THEN PathJoin(PathOfStr(global_settings[1].relative_to.alias),
                          relative_to(default, AbsoluteResolve(global_settings[1].root_dir)))
            ELSE default
    IN  IF ~IsAbsolute(default) THEN default
        ELSE IF is_relative_to(rooted, AbsoluteResolve(home))
        THEN PathJoin(PathOfStr("~"), relative_to(rooted, AbsoluteResolve(home)))
        ELSE rooted

list_of(value) == ListValue(value.v)

\* sorted(value) for a set
sorted(value) == ListValue(SortedInts(Range(value.v)))

_prepare_example(example) ==
    IF example.t = "set" THEN value_to_jsonable(sorted(example))
    ELSE value_to_jsonable(example)

\* Annotations.
\* A class that is no model: name is the class, label its __name__ as a str.
ClassAnn(name, label) == [k |-> "class", name |-> name, label |-> label]
NoneTypeAnn == [k |-> "NoneType"]                      \* type(None), as in Optional[T]
NoneAnn == [k |-> "None"]                              \* the object None
UnionAnn(args) == [k |-> "union", args |-> args]       \* Union[...], Optional[...], X | Y
GenericAnn(origin, args) == [k |-> "generic", origin |-> origin, args |-> args]
ModelAnn(cls) == [k |-> "model", cls |-> cls]          \* a BaseModel subclass

s_string == <<"s","t","r","i","n","g">>
s_integer == <<"i","n","t","e","g","e","r">>
s_number == <<"n","u","m","b","e","r">>
s_boolean == <<"b","o","o","l","e","a","n">>
s_array == <<"a","r","r","a","y">>
s_object == <<"o","b","j","e","c","t">>
s_null == <<"n","u","l","l">>
s_any == <<"a","n","y">>
s_NoneType == <<"N","o","n","e","T","y","p","e">>

\* FIELD_TYPE_MAP.get(annotation, annotation.__name__ if annotation else "any")
FieldTypeMapGet(ann) ==
    CASE ann.k = "None" -> s_null
      [] ann.k = "NoneType" -> s_NoneType
      [] ann.k = "model" -> ann.cls.name
      [] ann.k = "class" ->
            CASE ann.name \in {"SecretStr", "str"} -> s_string
              [] ann.name = "int" -> s_integer
              [] ann.name = "float" -> s_number
              [] ann.name = "bool" -> s_boolean
              [] ann.name = "list" -> s_array
              [] ann.name = "dict" -> s_object
              [] OTHER -> ann.label

RECURSIVE get_type_by_annotation(_)
get_type_by_annotation(annotation) ==
    LET \* get_args, without the arguments that are the object None
        args == IF annotation.k \in {"union", "generic"}
                THEN SelectSeq(annotation.args, LAMBDA a : a.k /= "None")
                ELSE <<>>
    IN  CASE annotation.k = "union" ->
               IF args /= <<>>
               THEN Flatten([i \in 1..Len(args) |-> get_type_by_annotation(args[i])])
               ELSE <<s_null>>
          [] annotation.k = "generic" -> <<FieldTypeMapGet(annotation.origin)>>
          [] OTHER -> <<FieldTypeMapGet(annotation)>>

-----------------------------------------------------------------------------
(* models.py: FieldInfoModel.                                              *)
(*                                                                         *)
(* A source field (pydantic FieldInfo) is a record                         *)
(*   [name, annotation, default, default_factory, description, examples,   *)
(*    alias, validation_alias, exclude, deprecated]                        *)
(* where default is a value or Undefined, default_factory is None or       *)
(* Some(the value the factory returns), description and alias are          *)
(* Optional[str], examples is a list of values.                            *)

\* validation_alias: None, a str, AliasChoices(...) or AliasPath(...).
NoValidationAlias == [k |-> "none"]
StrAlias(s) == [k |-> "str", v |-> s]
PathAlias(path) == [k |-> "path", path |-> path]        \* path: a list of str
ChoicesAlias(choices) == [k |-> "choices", choices |-> choices]

\* FieldInfoModel.full_name
full_name(field) == IF field.aliases /= <<>> THEN field.aliases[1] ELSE field.name

\* FieldInfoModel.is_required
is_required(field) == IsNone(field.default)

\* FieldInfoModel.has_examples
has_examples(field) == field.examples /= <<>> /\ field.examples /= field.default

\* A default that takes the factory first and an explicit None for no default.
create_default_factory_first(field) ==
    LET d1 == IF ~IsNone(field.default_factory) THEN field.default_factory[1] ELSE field.default
    IN  IF d1 \in {Undefined, NoneValue} THEN None
        ELSE IF d1.t = "set" THEN Some(value_to_jsonable(sorted(d1)))
        ELSE Some(value_to_jsonable(d1))

\* FieldInfoModel.create_default; a Path default is rewritten by default_path first.
create_default(field) ==
    LET d0 == field.default
        d1 == IF d0 = Undefined /\ ~IsNone(field.default_factory)
              THEN field.default_factory[1] ELSE d0
    IN  IF d1 = Undefined THEN None
        ELSE IF d1.t = "set" THEN Some(value_to_jsonable(sorted(d1)))
        ELSE Some(value_to_jsonable(d1))

_alias_path_to_str(value) ==
    IF value.k = "path" THEN JoinStr(<<".">>, value.path) ELSE value.v

\* FieldInfoModel.create_default raises: the default, or what the factory
\* returns when there is no default, is a value value_to_jsonable raises on.
CreateDefaultRaises(field) ==
    IF field.default /= Undefined THEN ValueToJsonableRaises(field.default)
    ELSE IF IsNone(field.default_factory) THEN FALSE
    ELSE ValueToJsonableRaises(field.default_factory[1])

\* FieldInfoModel.from_settings_field raises: create_default does, or
\* _prepare_example does for one of the examples.
FromSettingsFieldRaises(field) ==
    IF CreateDefaultRaises(field) THEN TRUE
    ELSE \E i \in 1..Len(field.examples) : ValueToJsonableRaises(field.examples[i])

\* FieldInfoModel.from_settings_field
from_settings_field(name, field) ==
    LET default == create_default(field)
        description == IF ~IsNone(field.description) /\ field.description[1] /= <<>>
                       THEN field.description ELSE None
        examples0 == [i \in 1..Len(field.examples) |-> _prepare_example(field.examples[i])]
        examples == IF examples0 = <<>> /\ ~IsNone(default) /\ default[1] /= <<>>
                    THEN <<default[1]>> ELSE examples0
        va == field.validation_alias
        aliases0 == IF ~IsNone(field.alias) /\ field.alias[1] /= <<>>
                    THEN <<field.alias[1]>> ELSE <<>>
        aliases ==
            CASE va.k = "none" -> aliases0
              [] va.k = "str" -> IF va.v /= <<>> THEN Append(aliases0, va.v) ELSE aliases0
              [] va.k = "choices" ->
                    aliases0 \o [i \in 1..Len(va.choices) |-> _alias_path_to_str(va.choices[i])]
              [] va.k = "path" -> <<_alias_path_to_str(va)>>
    IN  [name |-> name,
         types |-> get_type_by_annotation(field.annotation),
         default |-> default,
         description |-> description,
         examples |-> examples,
         aliases |-> aliases,
         deprecated |-> field.deprecated]

-----------------------------------------------------------------------------
(* models.py: SettingsInfoModel.                                           *)
(*                                                                         *)
(* A source model class is a record                                        *)
(*   [name, title, is_settings, env_prefix, env_nested_delimiter, doc,     *)
(*    fields]                                                              *)
(* name is __name__, title is model_config["title"] (Optional[str]),       *)
(* is_settings says the class derives from BaseSettings, env_prefix and    *)
(* env_nested_delimiter (Optional[str]) are read from model_config, doc is *)
(* inspect.getdoc, fields is model_fields in declaration order.            *)

s_underscore == <<"_">>

\* The docstrings of BaseSettings and of BaseModel, stripped.
BASE_SETTINGS_DOCS == <<"B","S">>
BASE_MODEL_DOCS == <<"B","M">>

\* Index of the first c in s at or after from, 0 when there is none.
IndexFrom(s, c, from) ==
    IF \A i \in from..Len(s) : s[i] /= c THEN 0
    ELSE CHOOSE i \in from..Len(s) : s[i] = c /\ \A j \in from..(i - 1) : s[j] /= c

\* docs.split("\f", 1)[0]
BeforeFormFeed(s) ==
    IF IndexFrom(s, "\f", 1) = 0 THEN s ELSE SubSeq(s, 1, IndexFrom(s, "\f", 1) - 1)

\* The class the loop tests with issubclass: the origin of a GenericAlias.
LoopAnnotation(field) ==
    IF field.annotation.k = "generic" THEN field.annotation.origin ELSE field.annotation

\* A child prefix that keeps the case of its parts.
ChildPrefixAsWritten(prefix, name, nested_delimiter) == prefix \o name \o nested_delimiter

\* f"{prefix}{name}{nested_delimiter}".upper()
ChildPrefix(prefix, name, nested_delimiter) == Upper(prefix \o name \o nested_delimiter)

\* SettingsInfoModel.from_settings_model raises: the extraction of a field that is
\* not skipped does, or that of a nested model.
\* The loop skips every excluded field, whatever the policy.
SkipsFieldAlways(global_settings, field) == field.exclude

\* global_settings and global_settings.respect_exclude and field_info.exclude
SkipsField(global_settings, field) ==
    ~IsNone(global_settings) /\ global_settings[1].respect_exclude /\ field.exclude

RECURSIVE FromSettingsModelRaises(_, _)
FromSettingsModelRaises(cls, global_settings) ==
    \E i \in 1..Len(cls.fields) :
        IF SkipsField(global_settings, cls.fields[i])
        THEN FALSE
        ELSE IF LoopAnnotation(cls.fields[i]).k = "model"
        THEN FromSettingsModelRaises(LoopAnnotation(cls.fields[i]).cls, global_settings)
        ELSE FromSettingsFieldRaises(cls.fields[i])

\* SettingsInfoModel.from_settings_model when it returns; global_settings is None
\* or Some(settings).
RECURSIVE from_settings_model(_, _, _, _)
from_settings_model(cls, global_settings, prefix0, nested_delimiter0) ==
    LET prefix == IF cls.is_settings
                  THEN (IF prefix0 /= <<>> THEN prefix0 ELSE cls.env_prefix)
                  ELSE prefix0
        nested_delimiter ==
            IF cls.is_settings
            THEN (IF ~IsNone(cls.env_nested_delimiter) /\ cls.env_nested_delimiter[1] /= <<>>
                  THEN cls.env_nested_delimiter[1] ELSE s_underscore)
            ELSE nested_delimiter0
        kept == SelectSeq(cls.fields, LAMBDA f : ~SkipsField(global_settings, f))
        nested == SelectSeq(kept, LAMBDA f : LoopAnnotation(f).k = "model")
        plain == SelectSeq(kept, LAMBDA f : LoopAnnotation(f).k /= "model")
        docs0 == IF Strip(cls.doc) \in {BASE_SETTINGS_DOCS, BASE_MODEL_DOCS} THEN <<>> ELSE cls.doc
    IN  [name |-> IF ~IsNone(cls.title) /\ cls.title[1] /= <<>> THEN cls.title[1] ELSE cls.name,
         docs |-> Strip(BeforeFormFeed(docs0)),
         env_prefix |-> prefix,
         fields |-> [i \in 1..Len(plain) |-> from_settings_field(plain[i].name, plain[i])],
         child_settings |->
            [i \in 1..Len(nested) |->
                from_settings_model(LoopAnnotation(nested[i]).cls, global_settings,
                                    ChildPrefix(prefix, nested[i].name, nested_delimiter),
                                    nested_delimiter)]]

-----------------------------------------------------------------------------
(* generators/abstract.py: the configuration and the generator instance.   *)
(*                                                                         *)
(* A generator configuration is a record with the fields of                *)
(* BaseGeneratorSettings (enabled, paths) and those of its own class:      *)
(*   dotenv:   split_by_group, add_examples, mode                          *)
(*   markdown: file_prefix, to_upper_case, table_headers, table_only       *)
(*             ("no" for False, "yes" for True, "with-header"),            *)
(*             region (None for False, or Some(name))                      *)
(* A generator instance is [kind, generator_config].                       *)

\* A truth value that forgets the enabled flag.
PathsOnly(config) == config.paths /= <<>>

\* BaseGeneratorSettings.__bool__ (MarkdownSettings.__bool__ is the same)
ConfigBool(config) == config.enabled /\ config.paths /= <<>>

\* DotEnvSettings.validate_paths: the deprecated name replaces paths.
DotEnvSettings(enabled, name, paths, split_by_group, add_examples, mode) ==
    [enabled |-> enabled,
     paths |-> IF ~IsNone(name) THEN <<name[1]>> ELSE paths,
     split_by_group |-> split_by_group,
     add_examples |-> add_examples,
     mode |-> mode]

TableHeaders == <<"Name", "Type", "Default", "Description", "Example">>

DefaultFilePrefix ==
    <<"#"," ","C","o","n","f","i","g","u","r","a","t","i","o","n","\n","\n","H","e","r","e"," ","y","o","u"," ","c","a","n"," ","f","i","n","d"," ","a","l","l"," ","a","v","a","i","l","a","b","l","e"," ","c","o","n","f","i","g","u","r","a","t","i","o","n"," ","o","p","t","i","o","n","s"," ","u","s","i","n","g"," ","E","N","V"," ","v","a","r","i","a","b","l","e","s",".","\n","\n">>

\* MarkdownSettings.validate_paths: the deprecated save_dirs and name replace paths,
\* and every path is made absolute against the working directory.
MarkdownSettings(enabled, name, save_dirs, paths, file_prefix, to_upper_case, table_headers, table_only, region) ==
    LET paths1 == IF save_dirs /= <<>> /\ name /= ""
                  THEN [i \in 1..Len(save_dirs) |-> PathJoin(save_dirs[i], RelPath(<<name>>))]
                  ELSE paths
    IN  [enabled |-> enabled,
         paths |-> [i \in 1..Len(paths1) |-> AbsoluteResolve(paths1[i])],
         file_prefix |-> file_prefix,
         to_upper_case |-> to_upper_case,
         table_headers |-> table_headers,
         table_only |-> table_only,
         region |-> region]

SimpleSettings(enabled, paths) == [enabled |-> enabled, paths |-> paths]

\* cls.config(): the configuration with every default.
DefaultConfig(kind) ==
    CASE kind = "dotenv" -> DotEnvSettings(TRUE, None, <<>>, TRUE, TRUE, "all")
      [] kind = "markdown" ->
            MarkdownSettings(TRUE, "Configuration.md", <<>>, <<>>, DefaultFilePrefix, TRUE,
                             TableHeaders, "no", None)
      [] kind = "simple" -> SimpleSettings(TRUE, <<>>)

\* AbstractGenerator.__init__: a falsy configuration is replaced by the default one.
NewGenerator(kind, generator_config) ==
    [kind |-> kind,
     generator_config |->
        IF ConfigBool(generator_config) THEN generator_config ELSE DefaultConfig(kind)]

\* AbstractGenerator.file_paths
file_paths(gen, pse) ==
    IF ~ConfigBool(gen.generator_config) THEN <<>>
    ELSE [i \in 1..Len(gen.generator_config.paths) |->
            IF IsAbsolute(gen.generator_config.paths[i])
            THEN gen.generator_config.paths[i]
            ELSE PathJoin(pse.root_dir, gen.generator_config.paths[i])]

-----------------------------------------------------------------------------
(* generators/dotenv.py.  A generate function returns [text, warnings]:    *)
(* the str and the warnings.warn calls it made, in order, each a record    *)
(* [w, ...] naming the warning and what it is about.                       *)

\* DOTENV_MODE_MAP[mode]: (is_optional, is_required)
DOTENV_MODE_MAP(mode) ==
    CASE mode = "all" -> [is_optional |-> TRUE, is_required |-> TRUE]
      [] mode = "only-optional" -> [is_optional |-> TRUE, is_required |-> FALSE]
      [] mode = "only-required" -> [is_optional |-> FALSE, is_required |-> TRUE]

\* A name that is the prefix and the declared name, alias or not.
DotEnvDeclaredName(settings_info, field) == settings_info.env_prefix \o Upper(field.name)

\* The environment variable name of DotEnvGenerator._process_field.
DotEnvFieldName(settings_info, field) ==
    IF field.aliases /= <<>> THEN Upper(field.aliases[1])
    ELSE settings_info.env_prefix \o Upper(field.name)

\* DotEnvGenerator._process_field: None when the field is skipped, else Some(line).
_process_field(config, settings_info, field, is_optional_, is_required_) ==
    LET field_name == DotEnvFieldName(settings_info, field)
        field_string ==
            IF ~is_required(field) /\ is_optional_
            THEN <<"#"," ">> \o field_name \o <<"=">> \o field.default[1]
            ELSE field_name \o <<"=">>
        with_examples ==
            IF field.examples /= <<>> /\ field.examples /= field.default /\ config.add_examples
            THEN field_string \o <<" "," ","#"," ">> \o JoinStr(<<","," ">>, field.examples)
            ELSE field_string
    IN  IF is_required(field) /\ ~is_required_ THEN None ELSE Some(with_examples)

\* DotEnvGenerator.generate_single
RECURSIVE DotEnvGenerateSingle(_, _)
DotEnvGenerateSingle(config, settings_info) ==
    LET flags == DOTENV_MODE_MAP(config.mode)
        header == IF config.split_by_group
                  THEN <<"#","#","#"," ">> \o settings_info.name \o <<"\n","\n">> ELSE <<>>
        strings == [i \in 1..Len(settings_info.fields) |->
                      _process_field(config, settings_info, settings_info.fields[i],
                                     flags.is_optional, flags.is_required)]
        emitted == SelectSeq(strings, LAMBDA o : ~IsNone(o) /\ o[1] /= <<>>)
        own == header \o Flatten([i \in 1..Len(emitted) |-> emitted[i][1] \o <<"\n">>])
        stripped == Strip(own) \o <<"\n">> \o (IF config.split_by_group THEN <<"\n">> ELSE <<>>)
        child_results == [i \in 1..Len(settings_info.child_settings) |->
                            DotEnvGenerateSingle(config, settings_info.child_settings[i])]
        child_texts == SelectSeq([i \in 1..Len(child_results) |-> child_results[i].text],
                                 LAMBDA r : Strip(r) /= <<>>)
        has_content == emitted /= <<>> \/ child_texts /= <<>>
    IN  [text |-> stripped \o Flatten(child_texts),
         warnings |-> Flatten([i \in 1..Len(child_results) |-> child_results[i].warnings])
                      \o (IF has_content THEN <<>>
                          ELSE <<[w |-> "no-variables", name |-> settings_info.name]>>),
         lines |-> [i \in 1..Len(emitted) |-> emitted[i][1]]]

-----------------------------------------------------------------------------
(* generators/simple.py *)

INDENT_CHAR == <<" "," ">>
HEADER_UNDERLINE_CHAR == "="
DeprecatedMark == <<" ", "(", "U+26A0", "U+FE0F", " ">> \o <<"D","e","p","r","e","c","a","t","e","d",")">>

\* str(list) of a list of str: ['a', 'b']
ListRepr(l) == <<"[">> \o JoinStr(<<","," ">>, [i \in 1..Len(l) |-> <<"'">> \o l[i] \o <<"'">>]) \o <<"]">>

SimpleField(field) ==
    LET field_name == <<"U+0060">> \o full_name(field) \o <<"U+0060">>
                      \o (IF field.deprecated THEN DeprecatedMark ELSE <<>>)
        h == field_name \o <<":"," ">> \o ListRepr(field.types)
    IN  <<"\n">> \o h \o <<"\n">> \o Repeat("-", Len(h)) \o <<"\n">>
        \o (IF ~IsNone(field.description) /\ field.description[1] /= <<>>
            THEN <<"\n">> \o field.description[1] \o <<"\n","\n">> ELSE <<>>)
        \o (IF ~IsNone(field.default) /\ field.default[1] /= <<>>
            THEN <<"D","e","f","a","u","l","t",":"," ">> \o field.default[1] \o <<"\n">> ELSE <<>>)
        \o (IF has_examples(field)
            THEN <<"E","x","a","m","p","l","e","s",":"," ">> \o JoinStr(<<","," ">>, field.examples) \o <<"\n">> ELSE <<>>)

\* SimpleGenerator.generate_single
SimpleGenerateSingle(settings_info, level) ==
    LET indent == Flatten(Repeat(INDENT_CHAR, level - 1))
        docs == RStrip(settings_info.docs)
        name == settings_info.name
    IN  [text |->
            indent \o name \o <<"\n">> \o indent \o Repeat(HEADER_UNDERLINE_CHAR, Len(name)) \o <<"\n">>
            \o (IF settings_info.env_prefix /= <<>>
                THEN <<"\n">> \o indent \o <<"E","n","v","i","r","o","n","m","e","n","t"," ","P","r","e","f","i","x",":"," ">> \o settings_info.env_prefix \o <<"\n">>
                ELSE <<>>)
            \o (IF docs /= <<>> THEN <<"\n">> \o indent \o docs \o <<"\n">> ELSE <<>>)
            \o Flatten([i \in 1..Len(settings_info.fields) |-> SimpleField(settings_info.fields[i])]),
         warnings |-> <<>>]

-----------------------------------------------------------------------------
(* utils.py: q and the Markdown table.                                     *)

\* q(s): the string in backquotes.
q(s) == <<"U+0060">> \o s \o <<"U+0060">>

\* MARKDOWN_PIPE_RE.sub(r"\\|", cell): a backslash before every pipe that has none.
EscapePipes(cell) ==
    Flatten([i \in 1..Len(cell) |->
                IF cell[i] = "|" /\ (i = 1 \/ cell[i - 1] /= "\\")
                THEN <<"\\", "|">> ELSE <<cell[i]>>])

\* The text of a table header (TableHeadersEnum value).
HeaderText(h) ==
    CASE h = "Name" -> <<"N","a","m","e">>
      [] h = "Type" -> <<"T","y","p","e">>
      [] h = "Default" -> <<"D","e","f","a","u","l","t">>
      [] h = "Description" -> <<"D","e","s","c","r","i","p","t","i","o","n">>
      [] h = "Example" -> <<"E","x","a","m","p","l","e">>

RECURSIVE MaxOf(_)
MaxOf(ns) == IF ns = <<>> THEN 0 ELSE Max(Head(ns), MaxOf(Tail(ns)))

\* make_pretty_md_table(headers, rows); the headers are texts, the rows lists of cells.
make_pretty_md_table(headers, rows0) ==
    LET rows == [r \in 1..Len(rows0) |->
                    [i \in 1..Len(rows0[r]) |-> EscapePipes(rows0[r][i])]]
        col_sizes == [i \in 1..Len(headers) |->
                        Max(Len(headers[i]), MaxOf([r \in 1..Len(rows) |-> Len(rows[r][i])]))]
        Cell(c, i) == <<" ">> \o c \o Repeat(" ", col_sizes[i] - Len(c)) \o <<" ","|">>
    IN  <<"|">>
        \o Flatten([i \in 1..Len(headers) |-> Cell(headers[i], i)])
        \o <<"\n","|">>
        \o Flatten([i \in 1..Len(headers) |-> Repeat("-", col_sizes[i] + 2) \o <<"|">>])
        \o Flatten([r \in 1..Len(rows) |->
                      <<"\n","|">> \o Flatten([i \in 1..Len(rows[r]) |-> Cell(rows[r][i], i)])])

\* make_pretty_md_table_from_dict(data, headers): a row is a record with the five
\* keys of TableRowDict, so the keys of all rows are TableHeaders.
make_pretty_md_table_from_dict(data, headers0) ==
    LET headers == IF headers0 /= <<>> THEN headers0
                   ELSE IF data = <<>> THEN <<>> ELSE TableHeaders
    IN  make_pretty_md_table(
            [i \in 1..Len(headers) |-> HeaderText(headers[i])],
            [r \in 1..Len(data) |->
                [i \in 1..Len(headers) |->
                    LET cell == data[r][headers[i]]
                    IN  IF IsNone(cell) THEN <<>> ELSE cell[1]]])

-----------------------------------------------------------------------------
(* generators/markdown.py *)

UNION_SEPARATOR == <<" ","|"," ">>

\* The Name cell before the deprecation mark.
MarkdownFieldName(settings_info, field, md_settings) ==
    LET name == IF field.aliases /= <<>>
                THEN JoinStr(UNION_SEPARATOR, [i \in 1..Len(field.aliases) |-> q(field.aliases[i])])
                ELSE q(settings_info.env_prefix \o field.name)
    IN  IF md_settings.to_upper_case THEN Upper(name) ELSE name

\* _make_table_row: every cell is an Optional[str].
_make_table_row(settings_info, field, md_settings) ==
    [Name |-> Some(MarkdownFieldName(settings_info, field, md_settings)
                   \o (IF field.deprecated THEN DeprecatedMark ELSE <<>>)),
     Type |-> Some(JoinStr(UNION_SEPARATOR, [i \in 1..Len(field.types) |-> q(field.types[i])])),
     Default |-> Some(IF is_required(field) THEN <<"*","r","e","q","u","i","r","e","d","*">> ELSE q(field.default[1])),
     Description |-> Some(IF IsNone(field.description) THEN <<>> ELSE field.description[1]),
     Example |-> IF field.examples /= <<>>
                 THEN Some(JoinStr(<<","," ">>, [i \in 1..Len(field.examples) |-> q(field.examples[i])]))
                 ELSE None]

\* MarkdownGenerator._make_table
_make_table(config, rows) == make_pretty_md_table_from_dict(rows, config.table_headers)

TableRows(config, settings_info) ==
    [i \in 1..Len(settings_info.fields) |->
        _make_table_row(settings_info, settings_info.fields[i], config)]

\* MarkdownGenerator.generate_single
\* The header is made with the level of the top-level descriptors at every depth.
MarkdownHeaderFlat(config, settings_info, level) ==
    IF config.table_only /= "no" THEN <<>>
    ELSE Repeat("#", 2) \o <<" ">> \o settings_info.name
         \o RStrip(<<"\n","\n">> \o settings_info.docs) \o <<"\n","\n">>
         \o (IF settings_info.env_prefix /= <<>>
             THEN <<"*","*","E","n","v","i","r","o","n","m","e","n","t"," ","P","r","e","f","i","x","*","*",":"," ","U+0060">> \o settings_info.env_prefix \o <<"U+0060","\n","\n">>
             ELSE <<>>)

\* generate_single: the header, with the docs and the prefix line.
MarkdownHeader(config, settings_info, level) ==
    IF config.table_only /= "no" THEN <<>>
    ELSE Repeat("#", level) \o <<" ">> \o settings_info.name
         \o RStrip(<<"\n","\n">> \o settings_info.docs) \o <<"\n","\n">>
         \o (IF settings_info.env_prefix /= <<>>
             THEN <<"*","*","E","n","v","i","r","o","n","m","e","n","t"," ","P","r","e","f","i","x","*","*",":"," ","U+0060">> \o settings_info.env_prefix \o <<"U+0060","\n","\n">>
             ELSE <<>>)

RECURSIVE MarkdownGenerateSingle(_, _, _)
MarkdownGenerateSingle(config, settings_info, level) ==
    LET header == MarkdownHeader(config, settings_info, level)
        rows == TableRows(config, settings_info)
        table == IF rows /= <<>> THEN _make_table(config, rows) \o <<"\n","\n">> ELSE <<>>
    IN  header \o table
        \o JoinStr(<<"\n","\n">>,
                   [i \in 1..Len(settings_info.child_settings) |->
                       Strip(MarkdownGenerateSingle(config, settings_info.child_settings[i],
                                                    level + 1))])

\* MarkdownGenerator._single_table
\* The rows of the children are put before the rows of the descriptor.
RECURSIVE _single_table_children_first(_, _)
_single_table_children_first(config, settings_info) ==
    Flatten([i \in 1..Len(settings_info.child_settings) |->
               _single_table_children_first(config, settings_info.child_settings[i])])
    \o TableRows(config, settings_info)

RECURSIVE _single_table(_, _)
_single_table(config, settings_info) ==
    TableRows(config, settings_info)
    \o Flatten([i \in 1..Len(settings_info.child_settings) |->
                  _single_table(config, settings_info.child_settings[i])])

EndsWithBlankLine(s) == Len(s) >= 2 /\ s[Len(s)] = "\n" /\ s[Len(s) - 1] = "\n"

\* MarkdownGenerator.generate
MarkdownGenerate(config, infos) ==
    LET prefix == IF config.file_prefix = <<>> THEN <<>>
                  ELSE IF EndsWithBlankLine(config.file_prefix) THEN config.file_prefix
                  ELSE config.file_prefix \o <<"\n","\n">>
        body == IF config.table_only /= "no"
                THEN _make_table(config,
                                 Flatten([i \in 1..Len(infos) |->
                                            _single_table(config, infos[i])]))
                ELSE JoinStr(<<"\n","\n">>,
                             [i \in 1..Len(infos) |->
                                 Strip(MarkdownGenerateSingle(config, infos[i], 2))])
    IN  [text |-> Strip(prefix \o body) \o <<"\n">>, warnings |-> <<>>]

-----------------------------------------------------------------------------
(* generators/abstract.py: generate.                                       *)

\* self.generate_single(s) with the default level, by the class of the generator.
GenerateSingle(gen, settings_info) ==
    CASE gen.kind = "dotenv" -> DotEnvGenerateSingle(gen.generator_config, settings_info)
      [] gen.kind = "simple" -> SimpleGenerateSingle(settings_info, 1)
      [] gen.kind = "markdown" ->
            [text |-> MarkdownGenerateSingle(gen.generator_config, settings_info, 1),
             warnings |-> <<>>]

\* A generate that puts the renderings on consecutive lines.
AbstractGenerateNoBlankLine(gen, infos) ==
    LET singles == [i \in 1..Len(infos) |-> GenerateSingle(gen, infos[i])]
    IN  [text |-> Strip(JoinStr(<<"\n">>, [i \in 1..Len(singles) |-> Strip(singles[i].text)]))
                  \o <<"\n">>,
         warnings |-> Flatten([i \in 1..Len(singles) |-> singles[i].warnings])]

\* AbstractGenerator.generate
AbstractGenerate(gen, infos) ==
    LET singles == [i \in 1..Len(infos) |-> GenerateSingle(gen, infos[i])]
    IN  [text |-> Strip(JoinStr(<<"\n","\n">>, [i \in 1..Len(singles) |-> Strip(singles[i].text)]))
                  \o <<"\n">>,
         warnings |-> Flatten([i \in 1..Len(singles) |-> singles[i].warnings])]

\* self.generate(*infos): MarkdownGenerator overrides generate.
Generate(gen, infos) ==
    IF gen.kind = "markdown" THEN MarkdownGenerate(gen.generator_config, infos)
    ELSE AbstractGenerate(gen, infos)

-----------------------------------------------------------------------------
(* The filesystem.  fs maps the parts of an absolute path to an entry:     *)
(* nothing, a directory, or a file and its text.  A file the process has   *)
(* no permission to write is marked read-only.  A relative path is looked  *)
(* up from the working directory.                                          *)

NoEntry == [k |-> "none"]
DirEntry == [k |-> "dir"]
FileEntry(text) == [k |-> "file", text |-> text]
ReadOnlyEntry(text) == [k |-> "file", text |-> text, readonly |-> TRUE]

IsReadOnly(entry) == entry.k = "file" /\ "readonly" \in DOMAIN entry

FsKey(path) == IF path.abs THEN path.parts ELSE Cwd.parts \o path.parts

\* Path.is_file()
is_file(f, path) == f[FsKey(path)].k = "file"

\* Path.read_text()
read_text(f, path) == f[FsKey(path)].text

\* The ancestors of a key that mkdir(parents=True) visits, outermost first.
Ancestors(key) == [i \in 1..Len(key) |-> SubSeq(key, 1, i)]

\* path.mkdir(parents=True, exist_ok=True): [fs, raised].  It raises (an OSError)
\* at the first ancestor that is a file, after creating the ones before it.
RECURSIVE MkdirAll(_, _)
MkdirAll(f, keys) ==
    IF keys = <<>> THEN [fs |-> f, raised |-> FALSE]
    ELSE IF f[Head(keys)].k = "file" THEN [fs |-> f, raised |-> TRUE]
    ELSE MkdirAll([f EXCEPT ![Head(keys)] = DirEntry], Tail(keys))

mkdir(f, path) == MkdirAll(f, Ancestors(FsKey(path)))

\* Path.write_text(text): [fs, raised].  It raises IsADirectoryError on a
\* directory and PermissionError on a read-only file, both an OSError.
write_text(f, path, text) ==
    IF f[FsKey(path)].k = "dir" THEN [fs |-> f, raised |-> TRUE]
    ELSE IF IsReadOnly(f[FsKey(path)]) THEN [fs |-> f, raised |-> TRUE]
    ELSE [fs |-> [f EXCEPT ![FsKey(path)] = FileEntry(text)], raised |-> FALSE]

-----------------------------------------------------------------------------
(* generators/abstract.py: run.  A run returns                             *)
(*   [fs, updated, raised, warnings, text]                                 *)
(* the filesystem it leaves, the list it returns (when raised is FALSE),   *)
(* whether an exception left it, its warnings and the text it generated.   *)

\* A loop that writes every path without comparing the content first.
RECURSIVE RunLoopAlwaysWrites(_, _, _, _)
RunLoopAlwaysWrites(paths, text, f, updated_files) ==
    IF paths = <<>> THEN [fs |-> f, updated |-> updated_files, raised |-> FALSE]
    ELSE LET made == mkdir(f, Parent(Head(paths)))
             wrote == write_text(made.fs, Head(paths), text)
         IN  IF made.raised
             THEN [fs |-> made.fs, updated |-> updated_files, raised |-> TRUE]
             ELSE IF wrote.raised
             THEN [fs |-> wrote.fs, updated |-> updated_files, raised |-> TRUE]
             ELSE RunLoopAlwaysWrites(Tail(paths), text, wrote.fs,
                                      Append(updated_files, Head(paths)))

\* A loop that compares before writing but reports every path it visited.
RECURSIVE RunLoopReportsAll(_, _, _, _)
RunLoopReportsAll(paths, text, f, updated_files) ==
    IF paths = <<>> THEN [fs |-> f, updated |-> updated_files, raised |-> FALSE]
    ELSE LET made == mkdir(f, Parent(Head(paths)))
             wrote == write_text(made.fs, Head(paths), text)
         IN  IF is_file(f, Head(paths)) /\ read_text(f, Head(paths)) = text
             THEN RunLoopReportsAll(Tail(paths), text, f, Append(updated_files, Head(paths)))
             ELSE IF made.raised
             THEN [fs |-> made.fs, updated |-> updated_files, raised |-> TRUE]
             ELSE IF wrote.raised
             THEN [fs |-> wrote.fs, updated |-> updated_files, raised |-> TRUE]
             ELSE RunLoopReportsAll(Tail(paths), text, wrote.fs,
                                    Append(updated_files, Head(paths)))

\* The loop of AbstractGenerator.run over the paths that are left.
RECURSIVE RunLoop(_, _, _, _)
RunLoop(paths, text, f, updated_files) ==
    IF paths = <<>> THEN [fs |-> f, updated |-> updated_files, raised |-> FALSE]
    ELSE LET path == Head(paths)
             made == mkdir(f, Parent(path))
             wrote == write_text(made.fs, path, text)
         IN  IF is_file(f, path) /\ read_text(f, path) = text
             THEN RunLoop(Tail(paths), text, f, updated_files)
             ELSE IF made.raised
             THEN [fs |-> made.fs, updated |-> updated_files, raised |-> TRUE]
             ELSE IF wrote.raised
             THEN [fs |-> wrote.fs, updated |-> updated_files, raised |-> TRUE]
             ELSE RunLoop(Tail(paths), text, wrote.fs, Append(updated_files, path))

\* What run returns, from what generate returned and what the loop did.
RunResult(generated, looped) ==
    [fs |-> looped.fs, updated |-> looped.updated, raised |-> looped.raised,
     warnings |-> generated.warnings, text |-> generated.text]

\* AbstractGenerator.run after result = self.generate(*settings_infos)
RunGenerated(gen, pse, f, generated) ==
    RunResult(generated, RunLoop(file_paths(gen, pse), generated.text, f, <<>>))

\* AbstractGenerator.run
AbstractRun(gen, infos, pse, f) == RunGenerated(gen, pse, f, Generate(gen, infos))

-----------------------------------------------------------------------------
(* generators/markdown.py: run in region mode.                             *)

\* The marker lines of text_region_parser for the configured region, each one
\* element of a text.
RegionStart == "<!-- region:config -->"
RegionEnd == "<!-- endregion:config -->"

\* constructor.parse_content(file_content) with the parser lambda _: replacement:
\* what stands between the markers of every region is replaced.
RECURSIVE parse_content(_, _)
parse_content(content, replacement) ==
    LET start == IndexFrom(content, RegionStart, 1)
        end == IF start = 0 THEN 0 ELSE IndexFrom(content, RegionEnd, start + 1)
    IN  IF end = 0 THEN content
        ELSE SubSeq(content, 1, start) \o replacement \o <<RegionEnd>>
             \o parse_content(SubSeq(content, end + 1, Len(content)), replacement)

\* What _process_region does once it has the new content of the file.
RegionWrite(f, file_content, new_content, wrote) ==
    IF new_content = file_content
    THEN [fs |-> f, updated |-> FALSE, raised |-> FALSE, cause |-> "none"]
    ELSE IF wrote.raised
    THEN [fs |-> wrote.fs, updated |-> FALSE, raised |-> TRUE, cause |-> "write"]
    ELSE [fs |-> wrote.fs, updated |-> TRUE, raised |-> FALSE, cause |-> "none"]

\* _process_region on a file, whose new content is new_content.
RegionParsed(f, path, new_content) ==
    RegionWrite(f, read_text(f, path), new_content, write_text(f, path, new_content))

\* MarkdownGenerator._process_region: [fs, updated, raised, cause]; every
\* exception it raises is an OSError, cause tells the missing file from the
\* write that failed.
_process_region(f, path, replacement) ==
    IF ~is_file(f, path)
    THEN [fs |-> f, updated |-> FALSE, raised |-> TRUE, cause |-> "missing"]
    ELSE RegionParsed(f, path, parse_content(read_text(f, path), replacement))

\* The loop of MarkdownGenerator.run in region mode: an OSError becomes a warning.
RECURSIVE RegionLoop(_, _, _, _, _)
RegionLoop(paths, replacement, f, updated_files, warned) ==
    IF paths = <<>> THEN [fs |-> f, updated |-> updated_files, warnings |-> warned]
    ELSE LET done == _process_region(f, Head(paths), replacement)
         IN  RegionLoop(Tail(paths), replacement, done.fs,
                        IF done.updated THEN Append(updated_files, Head(paths))
                        ELSE updated_files,
                        IF done.raised
                        THEN Append(warned, [w |-> "region-failed", path |-> Head(paths),
                                             cause |-> done.cause])
                        ELSE warned)

\* What the region mode of run returns.
RegionResult(generated, replacement, looped) ==
    [fs |-> looped.fs, updated |-> looped.updated, raised |-> FALSE,
     warnings |-> generated.warnings \o looped.warnings, text |-> replacement]

\* The text that replaces the content of the region.
Replacement(generated) == <<"\n">> \o Strip(generated.text) \o <<"\n">>

\* MarkdownGenerator.run in region mode after result = self.generate(*settings_infos)
RegionRunGenerated(gen, pse, f, generated) ==
    RegionResult(generated, Replacement(generated),
                 RegionLoop(file_paths(gen, pse), Replacement(generated), f, <<>>, <<>>))

\* MarkdownGenerator.run
MarkdownRun(gen, infos, pse, f) ==
    IF IsNone(gen.generator_config.region) THEN AbstractRun(gen, infos, pse, f)
    ELSE RegionRunGenerated(gen, pse, f, Generate(gen, infos))

\* generator.run(*settings_infos), by the class of the generator.
Run(gen, infos, pse, f) ==
    IF gen.kind = "markdown" THEN MarkdownRun(gen, infos, pse, f)
    ELSE AbstractRun(gen, infos, pse, f)

-----------------------------------------------------------------------------
(* The models that are exported.                                           *)

s_A == <<"A">>
s_B == <<"B">>
s_db == <<"d","b">>
s_host == <<"h","o","s","t">>
s_APP == <<"A","P","P","_">>
s_app == <<"a","p","p","_">>
s_FOO == <<"F","O","O">>

Field(name, annotation, default) ==
    [name |-> name, annotation |-> annotation, default |-> default,
     default_factory |-> None, description |-> None, examples |-> <<>>,
     alias |-> None, validation_alias |-> NoValidationAlias,
     exclude |-> FALSE, deprecated |-> FALSE]

StrAnn == ClassAnn("str", <<"s","t","r">>)
IntAnn == ClassAnn("int", <<"i","n","t">>)

\* class name(BaseSettings) with model_config = SettingsConfigDict(env_prefix=...)
SettingsClass(name, env_prefix, fields) ==
    [name |-> name, title |-> None, is_settings |-> TRUE, env_prefix |-> env_prefix,
     env_nested_delimiter |-> None, doc |-> <<>>, fields |-> fields]

\* class name(BaseModel)
ModelClass(name, fields) ==
    [name |-> name, title |-> None, is_settings |-> FALSE, env_prefix |-> <<>>,
     env_nested_delimiter |-> None, doc |-> <<>>, fields |-> fields]

\* The scenario of the documentation: one required field and one with a default.
FieldA == Field(s_A, StrAnn, Undefined)
FieldB == Field(s_B, IntAnn, IntValue(1))

Database == ModelClass(<<"D","b">>, <<Field(s_host, StrAnn, StrValue(<<"h">>))>>)
AppSettings == SettingsClass(<<"A","p","p">>, s_APP, <<FieldA, FieldB, Field(s_db, ModelAnn(Database), Undefined)>>)
Plain == SettingsClass(<<"S">>, <<>>, <<FieldA, FieldB>>)

-----------------------------------------------------------------------------
(* exporter.py: run_all, as the steps of one call.                         *)

\* Descriptors built in the reverse of the input order.
BuildReversed(ms, pse) ==
    [i \in 1..Len(ms) |->
        from_settings_model(ms[Len(ms) + 1 - i], Some(pse), <<>>, s_underscore)]

\* The descriptors run_all builds, one per model.
BuildSettingsInfos(ms, pse) ==
    [i \in 1..Len(ms) |-> from_settings_model(ms[i], Some(pse), <<>>, s_underscore)]

\* The projects: the working directory is /w, the project root /w/p is configured
\* absolute or relative to the working directory.
RootDirs == {AbsPath(<<"w", "p">>), RelPath(<<"p">>)}

OutA == RelPath(<<"a">>)            \* a file of the project
OutNested == RelPath(<<"d", "b">>)   \* a file in a directory of the project
OutAbs == AbsPath(<<"w", "a">>)     \* a file outside the project

\* Every path the generators of the model can touch, and its ancestors.
FsKeys ==
    LET leaves == {<<"w", "p", "a">>, <<"w", "p", "d", "b">>, <<"w", "a">>,
                   <<"w", "d", "b">>}
    IN  UNION {Range(Ancestors(k)) : k \in leaves}

EmptyFs == [k \in FsKeys |-> IF k \in {<<"w">>, <<"w", "p">>} THEN DirEntry ELSE NoEntry]

\* A file some earlier version of the tool wrote, and a document with a region.
StaleText == <<"o","l","d","\n">>
RegionDoc == <<"#"," ","D","o","c","\n">> \o <<RegionStart>> \o <<"\n","o","l","d","\n">> \o <<RegionEnd>> \o <<"\n">>

\* The project before the first export: empty, or with a stale output, a document
\* with a region, and a file where an output directory is to be made; or with
\* a document the process may not write.
InitialFilesystems ==
    {EmptyFs,
     [EmptyFs EXCEPT ![<<"w", "p", "a">>] = FileEntry(StaleText),
                     ![<<"w", "a">>] = FileEntry(RegionDoc),
                     ![<<"w", "p", "d">>] = FileEntry(StaleText)],
     [EmptyFs EXCEPT ![<<"w", "a">>] = ReadOnlyEntry(RegionDoc)]}

\* The configurations the generators are made from: [kind, config].
GeneratorConfigs ==
    {[kind |-> "dotenv", config |-> DotEnvSettings(TRUE, None, <<OutA, OutNested>>, TRUE, TRUE, "all")],
     [kind |-> "dotenv", config |-> DotEnvSettings(FALSE, None, <<OutA>>, TRUE, TRUE, "all")],
     [kind |-> "simple", config |-> SimpleSettings(TRUE, <<OutA>>)],
     [kind |-> "simple", config |-> SimpleSettings(TRUE, <<>>)]}
    \cup {[kind |-> "markdown", config |-> c] :
            c \in {MarkdownSettings(TRUE, "Configuration.md", <<>>, <<OutA>>, <<>>, TRUE,
                                    TableHeaders, "no", None),
                   MarkdownSettings(TRUE, "Configuration.md", <<>>, <<OutA>>, <<>>, TRUE,
                                    TableHeaders, "no", Some("config")),
                   MarkdownSettings(FALSE, "Configuration.md", <<>>, <<OutA>>, <<>>, TRUE,
                                    TableHeaders, "no", Some("config"))}}

\* The generator made from a configuration; given is the configuration it was
\* made from, kept for the properties only.
Instance(gc) == [kind |-> gc.kind, given |-> gc.config,
                 generator_config |-> NewGenerator(gc.kind, gc.config).generator_config]

\* The generator lists: up to MaxGenerators generators, one of a class at most.
GeneratorLists ==
    {l \in UNION {[1..n -> {Instance(gc) : gc \in GeneratorConfigs}] : n \in 0..MaxGenerators} :
        \A i, j \in 1..Len(l) : i /= j => l[i].kind /= l[j].kind}

ModelLists == {<<Plain>>, <<AppSettings, Plain>>}

NoSubject == [k |-> "none"]

RegistryIdle == ALL_GENERATORS = <<>> /\ classdefs = 0 /\ lastdef = NoSubject
PureIdle == subject = NoSubject /\ outcome = NoSubject

Init ==
    /\ RegistryIdle
    /\ PureIdle
    /\ fs \in InitialFilesystems
    /\ settings \in [root_dir : RootDirs, respect_exclude : {TRUE}]
    /\ generators \in GeneratorLists
    /\ models \in ModelLists
    /\ pc = "idle"
    /\ settings_infos = <<>>
    /\ gi = 0
    /\ result = <<>>
    /\ calls = <<>>
    /\ runs = <<>>
    /\ touched = FALSE
    /\ warnings = <<>>

\* exporter.run_all(*models) is called: the descriptors are built.
RunAllBegin ==
    /\ pc = "idle"
    /\ Len(runs) < MaxRuns
    /\ pc' = "running"
    /\ settings_infos' = BuildSettingsInfos(models, settings)
    /\ gi' = 1
    /\ result' = <<>>
    /\ calls' = <<>>
    /\ warnings' = <<>>
    /\ UNCHANGED <<fs, settings, generators, models, runs, touched>>

\* What the record of a call of generator.run keeps.
CallRecord(i, r) ==
    [gen |-> i, infos |-> settings_infos, before |-> fs, after |-> r.fs,
     updated |-> r.updated, raised |-> r.raised, text |-> r.text,
     warnings |-> r.warnings]

\* generator.run returned r: its paths are collected.
Collect(r) ==
    /\ ~r.raised
    /\ fs' = r.fs
    /\ result' = result \o r.updated
    /\ calls' = Append(calls, CallRecord(gi, r))
    /\ warnings' = warnings \o r.warnings
    /\ gi' = gi + 1
    /\ UNCHANGED <<settings, generators, models, pc, settings_infos, runs, touched>>

\* The next generator runs and returns its paths.
RunAllGenerator ==
    /\ pc = "running"
    /\ gi <= Len(generators)
    /\ Collect(Run(generators[gi], settings_infos, settings, fs))

\* generator.run raised, leaving r.fs behind: the call of run_all ends.
Propagate(r) ==
    /\ r.raised
    /\ fs' = r.fs
    /\ runs' = Append(runs, [raised |-> TRUE, result |-> <<>>, fresh |-> ~touched,
                             before |-> IF calls = <<>> THEN fs ELSE calls[1].before,
                             after |-> r.fs])
    /\ calls' = Append(calls, CallRecord(gi, r))
    /\ warnings' = warnings \o r.warnings
    /\ pc' = "idle"
    /\ touched' = FALSE
    /\ UNCHANGED <<settings, generators, models, settings_infos, gi, result>>

\* The next generator raises: the exception leaves run_all.
RunAllGeneratorRaises ==
    /\ pc = "running"
    /\ gi <= Len(generators)
    /\ Propagate(Run(generators[gi], settings_infos, settings, fs))

\* Every generator has run: run_all returns the collected paths.
RunAllReturn ==
    /\ pc = "running"
    /\ gi > Len(generators)
    /\ runs' = Append(runs, [raised |-> FALSE, result |-> result, fresh |-> ~touched,
                             before |-> IF calls = <<>> THEN fs ELSE calls[1].before,
                             after |-> fs])
    /\ pc' = "idle"
    /\ touched' = FALSE
    /\ UNCHANGED <<fs, settings, generators, models, settings_infos, gi, result, calls,
                   warnings>>

\* [path for generator in gens for path in generator.run(*infos)], from the
\* filesystem f: what the actions of run_all do step by step, as one value.
RECURSIVE RunAllFrom(_, _, _, _, _)
RunAllFrom(gens, infos, pse, f, collected) ==
    IF gens = <<>> THEN [fs |-> f, result |-> collected, raised |-> FALSE]
    ELSE LET r == Run(Head(gens), infos, pse, f)
         IN  IF r.raised THEN [fs |-> r.fs, result |-> <<>>, raised |-> TRUE]
             ELSE RunAllFrom(Tail(gens), infos, pse, r.fs, collected \o r.updated)

\* Between two calls something else overwrites a file.
ExternalWrite ==
    /\ pc = "idle"
    /\ runs /= <<>>
    /\ Len(runs) < MaxRuns
    /\ ~touched
    /\ \E k \in FsKeys :
        /\ fs[k].k = "file"
        /\ fs[k] /= FileEntry(StaleText)
        /\ fs' = [fs EXCEPT ![k] = FileEntry(StaleText)]
    /\ touched' = TRUE
    /\ UNCHANGED <<settings, generators, models, pc, settings_infos, gi, result, calls,
                   runs, warnings>>

Next ==
    \/ (RunAllBegin /\ UNCHANGED <<registryVars, pureVars>>)
    \/ (RunAllGenerator /\ UNCHANGED <<registryVars, pureVars>>)
    \/ (RunAllGeneratorRaises /\ UNCHANGED <<registryVars, pureVars>>)
    \/ (RunAllReturn /\ UNCHANGED <<registryVars, pureVars>>)
    \/ (ExternalWrite /\ UNCHANGED <<registryVars, pureVars>>)

Spec == Init /\ [][Next]_vars

-----------------------------------------------------------------------------
(* Properties of the export.                                               *)

\* The files generator i of the list writes to.
OutputKeys(i) == {FsKey(path) : path \in Range(file_paths(generators[i], settings))}

\* Two generators of the list write to the same file.
SharedOutput ==
    \E i, j \in 1..Len(generators) : i /= j /\ OutputKeys(i) \cap OutputKeys(j) /= {}

\* Call n of run_all is the second of two calls in a row that both returned,
\* with nothing else touching the filesystem in between.
Repeated(n) == n > 1 /\ runs[n].fresh /\ ~runs[n - 1].raised /\ ~runs[n].raised

\* The call wrote nothing and returned no path.
WroteNothing(run) == run.result = <<>> /\ run.after = run.before

BaseCall(c) ==
    generators[c.gen].kind /= "markdown" \/ IsNone(generators[c.gen].generator_config.region)

\* The path is a file that holds the text.
Holds(f, path, text) == is_file(f, path) /\ read_text(f, path) = text

\* What a call of the base run that returned did to the paths of file_paths().
ReturnsModified(c, paths) ==
    /\ \A i \in 1..Len(paths) :
          /\ (paths[i] \in Range(c.updated)) <=> ~Holds(c.before, paths[i], c.text)
          /\ Holds(c.after, paths[i], c.text)
    /\ Range(c.updated) \subseteq Range(paths)
    /\ \A k \in FsKeys : c.before[k] = FileEntry(c.text) => c.after[k] = c.before[k]
    /\ \A k \in FsKeys :
          (\A i \in 1..Len(paths) : k \notin Range(Ancestors(FsKey(paths[i]))))
          => c.after[k] = c.before[k]

\* C2: a base run that returns, returns exactly the paths of file_paths() that
\* were not a file holding the generated text before the call; after the call
\* every path of file_paths() holds the generated text, and nothing but these
\* paths and their parent directories has changed.
C2_ReturnsModified ==
    \A n \in 1..Len(calls) :
        BaseCall(calls[n]) /\ ~calls[n].raised
        => ReturnsModified(calls[n], file_paths(generators[calls[n].gen], settings))

\* A base run found one of its files up to date and wrote another one.
C2_Witness ==
    \E n \in 1..Len(calls) :
        /\ BaseCall(calls[n]) /\ ~calls[n].raised
        /\ calls[n].updated /= <<>>
        /\ Len(calls[n].updated) < Len(file_paths(generators[calls[n].gen], settings))

\* C3 as stated: every path of file_paths() is absolute, for every root
\* directory, a relative one included.
C3_Absolute ==
    \A i \in 1..Len(generators) :
        \A path \in Range(file_paths(generators[i], settings)) : IsAbsolute(path)

\* enabled is true and paths is not empty.
Truthy(config) == config.enabled /\ config.paths /= <<>>

\* C4: the configuration is truthy exactly when it is enabled and has paths; a
\* generator made from a configuration that is not has no file paths, and its
\* run, base or Markdown in region mode, returns the empty list and leaves the
\* filesystem as it was.
C4_FalsyIsNoOp ==
    /\ \A gc \in GeneratorConfigs : ConfigBool(gc.config) <=> Truthy(gc.config)
    /\ \A i \in 1..Len(generators) :
          ~Truthy(generators[i].given) => file_paths(generators[i], settings) = <<>>
    /\ \A n \in 1..Len(calls) :
          ~Truthy(generators[calls[n].gen].given)
          => ~calls[n].raised /\ calls[n].updated = <<>> /\ calls[n].after = calls[n].before

\* A Markdown generator configured disabled and in region mode has run on a
\* project whose document has the region.
C4_Witness ==
    \E n \in 1..Len(calls) :
        /\ generators[calls[n].gen].kind = "markdown"
        /\ ~generators[calls[n].gen].given.enabled
        /\ ~IsNone(generators[calls[n].gen].given.region)
        /\ calls[n].before[<<"w", "a">>] = FileEntry(RegionDoc)
        /\ calls[n].after = calls[n].before

\* The path lists the calls returned, one after the other.
Concatenated(cs) == Flatten([n \in 1..Len(cs) |-> cs[n].updated])

\* C10: run_all builds one descriptor per model, in input order; it calls run
\* once on every generator in the order of the list, each call with all the
\* descriptors and on the filesystem the call before left; it returns the
\* concatenation of the lists the calls returned.
C10_RunAllOrder ==
    /\ pc = "running" =>
          /\ Len(settings_infos) = Len(models)
          /\ \A i \in 1..Len(models) :
                settings_infos[i] = from_settings_model(models[i], Some(settings), <<>>, s_underscore)
          /\ Len(calls) = gi - 1
          /\ result = Concatenated(calls)
    /\ \A n \in 1..Len(calls) :
          /\ calls[n].gen = n
          /\ calls[n].infos = settings_infos
          /\ n > 1 => calls[n].before = calls[n - 1].after
    /\ pc = "idle" /\ runs /= <<>> /\ ~runs[Len(runs)].raised =>
          /\ Len(calls) = Len(generators)
          /\ runs[Len(runs)].result = Concatenated(calls)

\* run_all returned after two generators wrote the descriptors of two models.
C10_Witness ==
    /\ pc = "idle" /\ runs /= <<>> /\ ~runs[Len(runs)].raised
    /\ Len(models) = 2 /\ Len(calls) = 2
    /\ calls[1].updated /= <<>> /\ calls[2].updated /= <<>>
    /\ runs[Len(runs)].result = calls[1].updated \o calls[2].updated

\* A write of the call failed: the base run raised, or the region mode could
\* not write a file.
WriteFailed(c) ==
    \/ BaseCall(c) /\ c.raised
    \/ \E i \in 1..Len(c.warnings) :
          c.warnings[i].w = "region-failed" /\ c.warnings[i].cause = "write"

\* The files of fs are the ones the calls of the current run_all left.
Undisturbed == pc = "running" \/ ~touched

\* A call that raised is the last one, and it ended run_all with its exception.
RaiseEndsRunAll ==
    \A n \in 1..Len(calls) :
        calls[n].raised =>
            /\ n = Len(calls)
            /\ pc = "idle"
            /\ runs /= <<>>
            /\ runs[Len(runs)].raised

\* Every file a call wrote is as the call left it, unless it is an output of a
\* later call; a base run left its text in every path it had written, also
\* when it raised at a later path.
NoRollback ==
    \A m \in 1..Len(calls) :
        \A path \in Range(calls[m].updated) :
            /\ BaseCall(calls[m]) => Holds(calls[m].after, path, calls[m].text)
            /\ \/ fs[FsKey(path)] = calls[m].after[FsKey(path)]
               \/ \E n \in (m + 1)..Len(calls) : FsKey(path) \in OutputKeys(calls[n].gen)

\* C12 as stated: a failure to write a file raises out of run and out of
\* run_all, for every generator; the generators after the one that raised are
\* not run, and what was written before stays written.
C12_Propagates ==
    Undisturbed =>
        /\ \A n \in 1..Len(calls) : WriteFailed(calls[n]) => calls[n].raised
        /\ RaiseEndsRunAll
        /\ NoRollback

\* The call is one of the region mode, and one of its target files did not
\* exist when it began.
MissingTarget(c) ==
    /\ ~BaseCall(c)
    /\ \E path \in Range(file_paths(generators[c.gen], settings)) : ~is_file(c.before, path)

\* C13 as stated: a run of the Markdown generator in region mode on a target
\* file that does not exist raises, which ends run_all at once: no path is
\* written and no later generator runs.
C13_MissingTargetIsFatal ==
    \A n \in 1..Len(calls) :
        MissingTarget(calls[n]) =>
            /\ calls[n].raised
            /\ calls[n].after = calls[n].before
            /\ n = Len(calls)

\* The generator list in every order.
Reorderings(gens) ==
    {[i \in 1..Len(gens) |-> gens[p[i]]] :
        p \in {perm \in [1..Len(gens) -> 1..Len(gens)] :
                  \A i, j \in 1..Len(gens) : i /= j => perm[i] /= perm[j]}}

\* The call of run_all that gave run, had the generators been listed as gens.
Reordered(run, gens) == RunAllFrom(gens, BuildSettingsInfos(models, settings), settings, run.before, <<>>)

\* The other order runs to completion too, leaves every file with the same
\* content and reports the same set of paths.
SameOutcome(run, other) ==
    ~other.raised => other.fs = run.after /\ Range(other.result) = Range(run.result)

\* Every generator of the call saw the descriptors run_all built.
SameDescriptors == \A i \in 1..Len(calls) : calls[i].infos = BuildSettingsInfos(models, settings)

\* C22: when the generators all run to completion, the final content of every
\* file and the set of paths run_all reports do not depend on the order of the
\* generator list, also when two generators have the same output path; no
\* run changes the descriptors the others see.
C22_OrderIndependent ==
    /\ SameDescriptors
    /\ \A n \in 1..Len(runs) :
          ~runs[n].raised =>
              \A gens \in Reorderings(generators) : SameOutcome(runs[n], Reordered(runs[n], gens))

\* The same, for the generator lists with no output file in common.
C22_DisjointOutputs == SharedOutput \/ C22_OrderIndependent

-----------------------------------------------------------------------------
(* generators/abstract.py: the registry of generator classes.              *)
(*                                                                         *)
(* An object of the interpreter is a str or a class; a generator class is  *)
(* [k, id, name, config, init]: id tells the class objects apart, name is  *)
(* the class attribute (None when the class has none), config is "type"    *)
(* when the attribute is a class, "instance" when it is another object and *)
(* "none" when it is missing.  init tells what constructing an instance    *)
(* does: "ok" when it returns, "config-raises" when the configuration      *)
(* class has a required field, so that cls.config() raises a               *)
(* ValidationError, "raises" when the __init__ of the class raises an      *)
(* Exception for every configuration.                                      *)

StrObj(s) == [k |-> "str", s |-> s]
GeneratorClass(id, name, config, init) == [k |-> "class", id |-> id, name |-> name, config |-> config, init |-> init]

\* x in l: some element of the list equals x.
In(x, l) == \E i \in 1..Len(l) : l[i] = x

\* The names and the config attributes of the subclasses that get defined.
ClassNames == {None, Some(""), Some("dotenv"), Some("markdown"), Some("simple")}
ClassConfigs == {"type", "instance", "none"}
ClassInits == {"ok", "config-raises", "raises"}

\* AbstractGenerator.__init_subclass__ raises ValueError.
InitSubclassRaises(cls) ==
    IF IsNone(cls.name) THEN TRUE
    ELSE IF cls.name[1] = "" THEN TRUE
    ELSE IF cls.config /= "type" THEN TRUE
    ELSE In(StrObj(cls.name[1]), ALL_GENERATORS)

\* AbstractGenerator.generators(): the dict from name to class; for a name that
\* occurs twice the later class replaces the earlier one.
GeneratorsDict ==
    [n \in {ALL_GENERATORS[i].name[1] : i \in 1..Len(ALL_GENERATORS)} |->
        ALL_GENERATORS[CHOOSE i \in 1..Len(ALL_GENERATORS) :
                          /\ ALL_GENERATORS[i].name[1] = n
                          /\ \A j \in (i + 1)..Len(ALL_GENERATORS) :
                                ALL_GENERATORS[j].name[1] /= n]]

\* The names of GeneratorsDict in the order of the dict: by first occurrence.
GeneratorNames ==
    LET firsts == SelectSeq([i \in 1..Len(ALL_GENERATORS) |-> i],
                            LAMBDA i : \A j \in 1..(i - 1) :
                                          ALL_GENERATORS[j].name /= ALL_GENERATORS[i].name)
    IN  [n \in 1..Len(firsts) |-> ALL_GENERATORS[firsts[n]].name[1]]

\* A configuration of the CLI: id is its place in the list of its generator,
\* truthy what bool(configuration) gives.
CliConfig(id, truthy) == [id |-> id, truthy |-> truthy]

\* cls.config(), for a class whose configuration class has defaults.
DefaultCliConfig == CliConfig(0, FALSE)

\* cls(settings, generator_config) raises an Exception; generator_config is None
\* or Some(configuration).  AbstractGenerator.__init__ calls self.config() when
\* the configuration is missing or falsy.
ConstructRaises(cls, generator_config) ==
    IF cls.init = "raises" THEN TRUE
    ELSE IF cls.init = "config-raises"
    THEN (IF IsNone(generator_config) THEN TRUE ELSE ~generator_config[1].truthy)
    ELSE FALSE

\* The instance cls(settings, generator_config) returns.
Construct(cls, generator_config) ==
    [cls |-> cls,
     generator_config |->
        IF IsNone(generator_config) THEN DefaultCliConfig
        ELSE IF generator_config[1].truthy THEN generator_config[1]
        ELSE DefaultCliConfig]

\* A loop that lets the exception of a constructor end it.
RECURSIVE ExporterGeneratorsAborts(_, _, _)
ExporterGeneratorsAborts(classes, made, warned) ==
    IF classes = <<>> THEN [generators |-> made, warnings |-> warned]
    ELSE IF ConstructRaises(Head(classes), None)
    THEN [generators |-> made,
          warnings |-> Append(warned, [w |-> "init-failed", cls |-> Head(classes)])]
    ELSE ExporterGeneratorsAborts(Tail(classes), Append(made, Construct(Head(classes), None)),
                                  warned)

\* The loop of Exporter.__init__ over the classes that are left, when no
\* generators are given: [generators, warnings].
RECURSIVE ExporterGenerators(_, _, _)
ExporterGenerators(classes, made, warned) ==
    IF classes = <<>> THEN [generators |-> made, warnings |-> warned]
    ELSE IF ConstructRaises(Head(classes), None)
    THEN ExporterGenerators(Tail(classes), made,
                            Append(warned, [w |-> "init-failed", cls |-> Head(classes)]))
    ELSE ExporterGenerators(Tail(classes), Append(made, Construct(Head(classes), None)),
                            warned)

\* What the two loops of get_generators visit: the pairs <<name, gen_config>>.
ConfigPairs(cli_generators) ==
    Flatten([i \in 1..Len(cli_generators) |->
                [j \in 1..Len(cli_generators[i][2]) |->
                    <<cli_generators[i][1], cli_generators[i][2][j]>>]])

\* The loops of PSECLISettings.get_generators over the pairs that are left:
\* [generators, warnings].
RECURSIVE get_generators(_, _, _, _)
get_generators(pairs, all_generators, made, warned) ==
    IF pairs = <<>> THEN [generators |-> made, warnings |-> warned]
    ELSE IF Head(pairs)[1] \notin DOMAIN all_generators
    THEN get_generators(Tail(pairs), all_generators, made,
                        Append(warned, [w |-> "not-found", name |-> Head(pairs)[1]]))
    ELSE IF ConstructRaises(all_generators[Head(pairs)[1]], Some(Head(pairs)[2]))
    THEN get_generators(Tail(pairs), all_generators, made,
                        Append(warned, [w |-> "init-failed", name |-> Head(pairs)[1]]))
    ELSE get_generators(Tail(pairs), all_generators,
                        Append(made, Construct(all_generators[Head(pairs)[1]],
                                               Some(Head(pairs)[2]))),
                        warned)

\* The lists of configurations one generator has in the settings of the CLI.
CliConfigLists ==
    {[j \in 1..Len(truthy) |-> CliConfig(j, truthy[j])] :
        truthy \in UNION {[1..n -> BOOLEAN] : n \in 1..MaxConfigs}}

\* The export is not running.
ExportIdleWith(respect_exclude) ==
    /\ fs = EmptyFs
    /\ settings = [root_dir |-> AbsPath(<<"w", "p">>), respect_exclude |-> respect_exclude]
    /\ generators = <<>>
    /\ models = <<>>
    /\ pc = "idle"
    /\ settings_infos = <<>>
    /\ gi = 0
    /\ result = <<>>
    /\ calls = <<>>
    /\ runs = <<>>
    /\ touched = FALSE
    /\ warnings = <<>>

ExportIdle == ExportIdleWith(TRUE)

InitRegistry == RegistryIdle /\ ExportIdle /\ PureIdle

\* A list of generators has been made from the registry: the classes are
\* defined when the modules are imported, before an Exporter is made.
ListMade == lastdef.k \in {"exporter", "cli"}

\* class X(AbstractGenerator) is defined and registered.
DefineSubclass ==
    /\ classdefs < MaxClassDefs
    /\ ~ListMade
    /\ \E name \in ClassNames, config \in ClassConfigs, init \in ClassInits :
        LET cls == GeneratorClass(classdefs + 1, name, config, init)
        IN  /\ ~InitSubclassRaises(cls)
            /\ ALL_GENERATORS' = Append(ALL_GENERATORS, cls)
            /\ lastdef' = [k |-> "defined", cls |-> cls]
    /\ classdefs' = classdefs + 1

\* class X(AbstractGenerator) is defined and __init_subclass__ raises; no
\* instance of the class is ever made, whatever its __init__ is.
DefineSubclassRaises ==
    /\ classdefs < MaxClassDefs
    /\ ~ListMade
    /\ \E name \in ClassNames, config \in ClassConfigs :
        LET cls == GeneratorClass(classdefs + 1, name, config, "ok")
        IN  /\ InitSubclassRaises(cls)
            /\ lastdef' = [k |-> "raised", cls |-> cls]
    /\ classdefs' = classdefs + 1
    /\ UNCHANGED ALL_GENERATORS

\* What is left alone when a list of generators is made.
madeUnchanged == <<ALL_GENERATORS, classdefs, fs, settings, models, pc, settings_infos, gi, result, calls, runs, touched>>

\* The list of generators made from the registry is kept, with what it was made
\* from; a behaviour makes one list.
Made(k, configs, r) ==
    /\ ~ListMade
    /\ generators' = r.generators
    /\ warnings' = r.warnings
    /\ lastdef' = [k |-> k, classes |-> ALL_GENERATORS, configs |-> configs]
    /\ UNCHANGED madeUnchanged

\* Exporter(settings): no generators are given, every registered class is tried.
ExporterInit == Made("exporter", <<>>, ExporterGenerators(ALL_GENERATORS, <<>>, <<>>))

\* The value of PSECLISettings.generators: every name of the registry with the
\* list of its configurations.
CliGenerators(configs) == [n \in 1..Len(GeneratorNames) |-> <<GeneratorNames[n], configs>>]

\* PSECLISettings.get_generators(), every generator configured with configs.
GetGenerators ==
    \E configs \in CliConfigLists :
        Made("cli", configs,
             get_generators(ConfigPairs(CliGenerators(configs)), GeneratorsDict, <<>>, <<>>))

NextRegistry ==
    \/ (DefineSubclass /\ UNCHANGED <<exportVars, pureVars>>)
    \/ (DefineSubclassRaises /\ UNCHANGED <<exportVars, pureVars>>)
    \/ (ExporterInit /\ UNCHANGED pureVars)
    \/ (GetGenerators /\ UNCHANGED pureVars)

SpecRegistry == InitRegistry /\ [][NextRegistry]_vars

\* C5 as stated: no two entries of ALL_GENERATORS have the same name, and a
\* subclass whose name is already registered is not registered.
C5_UniqueNames ==
    \A i, j \in 1..Len(ALL_GENERATORS) :
        i /= j => ALL_GENERATORS[i].name /= ALL_GENERATORS[j].name

\* The classes of a list whose default construction returns.
Constructible(classes) == SelectSeq(classes, LAMBDA c : ~ConstructRaises(c, None))

\* The pairs of name and configuration whose construction returns.
ConstructiblePairs(pairs) ==
    SelectSeq(pairs, LAMBDA p : ~ConstructRaises(GeneratorsDict[p[1]], Some(p[2])))

\* The list holds one instance for every class of ok, in the order of ok.
InstancesOf(l, ok) ==
    /\ Len(l) = Len(ok)
    /\ \A i \in 1..Len(ok) : l[i] = Construct(ok[i], None)

\* The list holds one instance for every pair of ok, in the order of ok.
InstancesOfPairs(l, ok) ==
    /\ Len(l) = Len(ok)
    /\ \A i \in 1..Len(ok) : l[i] = Construct(GeneratorsDict[ok[i][1]], Some(ok[i][2]))

\* C11: a generator whose construction raises is skipped with one warning: the
\* Exporter made without generators holds an instance of every registered
\* class that constructs, in the order of the registry, and get_generators
\* returns an instance for every configuration that its class accepts, in the
\* order of the configurations; neither raises.
C11_SkipFailed ==
    /\ lastdef.k = "exporter" =>
          /\ InstancesOf(generators, Constructible(lastdef.classes))
          /\ Len(warnings) = Len(lastdef.classes) - Len(generators)
    /\ lastdef.k = "cli" =>
          /\ InstancesOfPairs(generators,
                              ConstructiblePairs(ConfigPairs(CliGenerators(lastdef.configs))))
          /\ Len(warnings) = Len(ConfigPairs(CliGenerators(lastdef.configs))) - Len(generators)

\* An Exporter was made from three classes of which the second does not
\* construct: it holds the first and the third, and one warning was given.
C11_Witness ==
    /\ lastdef.k = "exporter"
    /\ Len(lastdef.classes) = 3
    /\ ConstructRaises(lastdef.classes[2], None)
    /\ generators = <<Construct(lastdef.classes[1], None), Construct(lastdef.classes[3], None)>>
    /\ Len(warnings) = 1

-----------------------------------------------------------------------------
(* Extraction and rendering of one model: from_settings_model, then        *)
(* generate_single of the dotenv generator or the table of the Markdown    *)
(* generator.                                                              *)

s_c == <<"c">>
s_l == <<"l">>
s_n == <<"n">>
s_foo == <<"f","o","o">>
s_Foo == <<"F","o","o">>
s_xprefix == <<"x","_">>
s_dunder == <<"_","_">>
s_S == <<"S">>
s_Db == <<"D","b">>
s_s == <<"s">>

\* c: Optional[str] = None
FieldC == Field(s_c, UnionAnn(<<StrAnn, NoneTypeAnn>>), NoneValue)
\* l: list[int] = Field(default_factory=list)
FieldL ==
    [Field(s_l, GenericAnn(ClassAnn("list", <<"l","i","s","t">>), <<IntAnn>>), Undefined)
        EXCEPT !.default_factory = Some(ListValue(<<>>))]
\* n: a field whose FieldInfo has both default = 2 and a factory that returns 3
FieldN == [Field(s_n, IntAnn, IntValue(2)) EXCEPT !.default_factory = Some(IntValue(3))]
\* foo: str = Field(alias="FOO"), with validation_alias unset
FieldFoo == [Field(s_foo, StrAnn, Undefined) EXCEPT !.alias = Some(s_FOO)]
\* Foo: int = Field(1, alias="FOO", validation_alias="FOO")
FieldFooBoth ==
    [Field(s_Foo, IntAnn, IntValue(1))
        EXCEPT !.alias = Some(s_FOO), !.validation_alias = StrAlias(s_FOO)]

\* k: K = K(), for a class K without a pydantic schema, in a model whose
\* configuration allows arbitrary types
FieldK == Field(<<"k">>, ClassAnn("K", <<"K">>), ArbitraryValue(<<"K","(",")">>))

\* s: set[int] = {2, 1}, with the example {3, 1}
FieldS ==
    [Field(s_s, GenericAnn(ClassAnn("set", <<"s","e","t">>), <<IntAnn>>), SetValue(<<2, 1>>))
        EXCEPT !.examples = <<SetValue(<<3, 1>>)>>]
\* t: set[int] = Field(default_factory=lambda: {3, 2, 1})
FieldT ==
    [Field(<<"t">>, GenericAnn(ClassAnn("set", <<"s","e","t">>), <<IntAnn>>), Undefined)
        EXCEPT !.default_factory = Some(SetValue(<<3, 1, 2>>))]

FieldPool == {FieldA, FieldB, FieldC, FieldL, FieldN, FieldFoo, FieldFooBoth}

\* x: str = Field("v", exclude=True)
FieldX == [Field(<<"x">>, StrAnn, StrValue(<<"v">>)) EXCEPT !.exclude = TRUE]
\* class Ca(BaseModel): a: ...; x: str = Field("v", exclude=True)
Cache == ModelClass(<<"C","a">>, <<FieldA, FieldX>>)
FieldDb == Field(s_db, ModelAnn(Database), Undefined)
FieldCache == Field(<<"e">>, ModelAnn(Cache), Undefined)
\* class Q(BaseModel): b: ...;  y: Q = Field(exclude=True)
Queue == ModelClass(<<"Q">>, <<FieldB>>)
FieldXQueue == [Field(<<"y">>, ModelAnn(Queue), Undefined) EXCEPT !.exclude = TRUE]

\* The field lists of the models with excluded fields.
ExcludeFieldLists ==
    {<<FieldX>>, <<FieldA, FieldX, FieldDb, FieldB>>, <<FieldCache, FieldB, FieldXQueue>>,
     <<FieldXQueue, FieldCache, FieldX, FieldDb, FieldA>>}

ExcludeSubjects ==
    {[k |-> "model", cls |-> SettingsClass(s_S, <<>>, fields), depth |-> 0] :
        fields \in ExcludeFieldLists}

\* p: str = Field(alias="P", validation_alias=AliasPath("d", 0))
FieldP ==
    [Field(<<"p">>, StrAnn, Undefined)
        EXCEPT !.alias = Some(<<"P">>), !.validation_alias = PathAlias(<< <<"d">>, <<"0">> >>)]
\* u: str = Field(validation_alias=AliasPath("d", 0))
FieldU ==
    [Field(<<"u">>, StrAnn, Undefined) EXCEPT !.validation_alias = PathAlias(<< <<"d">>, <<"0">> >>)]
\* m: str = Field(alias="M", validation_alias=AliasChoices("m1", AliasPath("d", 1)))
FieldM ==
    [Field(<<"m">>, StrAnn, Undefined)
        EXCEPT !.alias = Some(<<"M">>),
               !.validation_alias = ChoicesAlias(<<StrAlias(<<"m","1">>),
                                                   PathAlias(<< <<"d">>, <<"1">> >>)>>)]
\* v: int = Field(1, validation_alias="V")
FieldV == [Field(<<"v">>, IntAnn, IntValue(1)) EXCEPT !.validation_alias = StrAlias(<<"V">>)]

\* o: E = E("E"), for a class E that pydantic makes a schema for and cannot
\* serialise, whose str() is the text it was made with
FieldO == Field(<<"o">>, ClassAnn("E", <<"E">>), ObjValue(<<"E">>))
\* z: E = E("")
FieldZ == Field(<<"z">>, ClassAnn("E", <<"E">>), ObjValue(<<>>))
\* g: int = Field(1, examples=[2, 1])
FieldG == [Field(<<"g">>, IntAnn, IntValue(1)) EXCEPT !.examples = <<IntValue(2), IntValue(1)>>]
\* r: int = Field(examples=[3])
FieldR == [Field(<<"r">>, IntAnn, Undefined) EXCEPT !.examples = <<IntValue(3)>>]

\* class R(BaseModel): A: str;  w: R
Required == ModelClass(<<"R">>, <<FieldA>>)
FieldW == Field(<<"w">>, ModelAnn(Required), Undefined)

\* The field lists of the models with a field of a special kind.
SpecialFieldLists ==
    {<<FieldK>>, <<FieldA, FieldK>>, <<FieldS>>, <<FieldS, FieldT>>, <<FieldB, FieldT>>,
     <<FieldP>>, <<FieldU, FieldFooBoth>>, <<FieldM, FieldV>>, <<FieldA, FieldM, FieldP>>,
     <<FieldO, FieldG>>, <<FieldR, FieldZ>>, <<FieldG, FieldR>>,
     <<FieldW>>, <<FieldA, FieldW>>, <<FieldW, FieldDb>>}

\* The field lists of a model: up to MaxFields fields, no name twice.
FieldLists ==
    {l \in UNION {[1..n -> FieldPool] : n \in 0..MaxFields} :
        \A i, j \in 1..Len(l) : i /= j => l[i].name /= l[j].name}

\* The class of the field db, depth levels deep: a BaseModel, or a BaseSettings
\* with a prefix and a delimiter of its own.
RECURSIVE NestedClass(_, _)
NestedClass(kind, depth) ==
    LET own == <<Field(s_host, StrAnn, StrValue(<<"h">>))>>
        fields == IF depth > 1
                  THEN Append(own, Field(s_db, ModelAnn(NestedClass(kind, depth - 1)), Undefined))
                  ELSE own
    IN  IF kind = "settings"
        THEN [SettingsClass(s_Db, s_xprefix, fields) EXCEPT !.env_nested_delimiter = Some(s_dunder)]
        ELSE ModelClass(s_Db, fields)

\* The shapes of the models with nested models.
NestedShapes ==
    [prefix : {<<>>, s_app, s_APP}, delimiter : {None, Some(s_dunder)},
     kind : {"model", "settings"}, depth : 1..MaxDepth]

\* The model of a shape: the fields A and B, and db.
NestedSubject(shape) ==
    [SettingsClass(s_S, shape.prefix,
                   <<FieldA, FieldB,
                     Field(s_db, ModelAnn(NestedClass(shape.kind, shape.depth)), Undefined)>>)
        EXCEPT !.env_nested_delimiter = shape.delimiter]

\* The models that are extracted: [k, cls, depth].
Subjects ==
    {[k |-> "model", cls |-> SettingsClass(s_S, prefix, fields), depth |-> 0] :
        prefix \in {<<>>, s_app}, fields \in FieldLists}
    \cup {[k |-> "model", cls |-> NestedSubject(shape), depth |-> shape.depth] :
            shape \in NestedShapes}
    \cup {[k |-> "model", cls |-> SettingsClass(s_S, <<>>, fields), depth |-> 0] :
            fields \in SpecialFieldLists}
    \cup ExcludeSubjects

\* The policy respect_exclude is on by default; it is also taken off for the
\* models with excluded fields.
InitRender ==
    /\ RegistryIdle
    /\ subject \in Subjects
    /\ \E respect_exclude \in {r \in BOOLEAN : r \/ subject \in ExcludeSubjects} :
            ExportIdleWith(respect_exclude)
    /\ outcome = NoSubject

\* SettingsInfoModel.from_settings_model(cls, settings) returns the descriptor.
Extract ==
    /\ outcome.k = "none"
    /\ ~FromSettingsModelRaises(subject.cls, Some(settings))
    /\ outcome' = [k |-> "info",
                   info |-> from_settings_model(subject.cls, Some(settings), <<>>, s_underscore)]
    /\ UNCHANGED subject

\* SettingsInfoModel.from_settings_model(cls, settings) raises.
ExtractRaises ==
    /\ outcome.k = "none"
    /\ FromSettingsModelRaises(subject.cls, Some(settings))
    /\ outcome' = [k |-> "raised", error |-> "PydanticSchemaGenerationError"]
    /\ UNCHANGED subject

\* What RenderDotenv keeps of a call of generate_single.
DotenvOutcome(config, info, out) ==
    [k |-> "dotenv", info |-> info, config |-> config, text |-> out.text,
     lines |-> out.lines, warnings |-> out.warnings]

\* DotEnvGenerator(settings, config).generate_single(info)
RenderDotenv ==
    /\ outcome.k = "info"
    /\ \E mode \in {"all", "only-optional", "only-required"}, split_by_group \in BOOLEAN :
        LET config == DotEnvSettings(TRUE, None, <<OutA>>, split_by_group, TRUE, mode)
        IN  outcome' = DotenvOutcome(config, outcome.info,
                                     DotEnvGenerateSingle(config, outcome.info))
    /\ UNCHANGED subject

\* The rows of the table MarkdownGenerator(settings, config) makes for info.
RenderMarkdown ==
    /\ outcome.k = "info"
    /\ \E to_upper_case \in BOOLEAN :
        LET config == MarkdownSettings(TRUE, "Configuration.md", <<>>, <<OutA>>, <<>>,
                                       to_upper_case, TableHeaders, "no", None)
        IN  outcome' = [k |-> "markdown", info |-> outcome.info, config |-> config,
                        rows |-> TableRows(config, outcome.info)]
    /\ UNCHANGED subject

\* The generators whose generate is called on the descriptors.
GenerateGenerators ==
    {NewGenerator("dotenv", DotEnvSettings(TRUE, None, <<OutA>>, TRUE, TRUE, "all")),
     NewGenerator("dotenv", DotEnvSettings(TRUE, None, <<OutA>>, FALSE, TRUE, "only-optional")),
     NewGenerator("simple", SimpleSettings(TRUE, <<OutA>>)),
     NewGenerator("markdown", MarkdownSettings(TRUE, "Configuration.md", <<>>, <<OutA>>, DefaultFilePrefix, TRUE, TableHeaders, "no", None)),
     NewGenerator("markdown", MarkdownSettings(TRUE, "Configuration.md", <<>>, <<OutA>>, <<>>, TRUE, TableHeaders, "no", None)),
     NewGenerator("markdown", MarkdownSettings(TRUE, "Configuration.md", <<>>, <<OutA>>, <<>>, TRUE, TableHeaders, "yes", None))}

\* The descriptor of the model Plain.
PlainInfo == from_settings_model(Plain, Some([root_dir |-> AbsPath(<<"w", "p">>), respect_exclude |-> TRUE]), <<>>, s_underscore)

\* The list a, b, a, ... of length n.
Alternating(a, b, n) == [i \in 1..n |-> IF i % 2 = 1 THEN a ELSE b]

\* The descriptor lists generate is called with: up to MaxInfos descriptors,
\* the one of the subject and the one of Plain in turn.
InfoLists(info) ==
    {Alternating(info, PlainInfo, n) : n \in 0..MaxInfos}
    \cup {Alternating(PlainInfo, info, n) : n \in 0..MaxInfos}

\* What RenderGenerate keeps of a call of generate.
GenerateOutcome(gen, info, infos, generated) ==
    [k |-> "generate", info |-> info, gen |-> gen, infos |-> infos,
     text |-> generated.text, warnings |-> generated.warnings]

\* The value as another process holds it: a set iterates in another order.
ReiteratedValue(value) ==
    IF value.t = "set" THEN SetValue([i \in 1..Len(value.v) |-> value.v[Len(value.v) + 1 - i]])
    ELSE value

\* The model as another process holds it.
RECURSIVE Reiterated(_)
Reiterated(cls) ==
    [cls EXCEPT !.fields =
        [i \in 1..Len(cls.fields) |->
            [cls.fields[i] EXCEPT
                !.default = ReiteratedValue(@),
                !.default_factory = [j \in 1..Len(@) |-> ReiteratedValue(@[j])],
                !.examples = [j \in 1..Len(@) |-> ReiteratedValue(@[j])],
                !.annotation = IF @.k = "model" THEN ModelAnn(Reiterated(@.cls)) ELSE @]]]

\* The model is extracted once more, by a process that iterates the sets in
\* another order.
ExtractAgain ==
    /\ outcome.k = "info"
    /\ outcome' = [k |-> "again", info |-> outcome.info,
                   again |-> from_settings_model(Reiterated(subject.cls), Some(settings),
                                                 <<>>, s_underscore)]
    /\ UNCHANGED subject

\* What RenderAgain keeps of the two calls of generate.
TwiceOutcome(gen, info, again, generated, generated_again) ==
    [k |-> "twice", gen |-> gen, info |-> info, again |-> again,
     text |-> generated.text, text_again |-> generated_again.text]

\* generator.generate is called on each of the two descriptors.
RenderAgain ==
    /\ outcome.k = "again"
    /\ \E gen \in GenerateGenerators :
        outcome' = TwiceOutcome(gen, outcome.info, outcome.again,
                                Generate(gen, <<outcome.info>>), Generate(gen, <<outcome.again>>))
    /\ UNCHANGED subject


\* generator.generate(*infos)
RenderGenerate ==
    /\ outcome.k = "info"
    /\ \E gen \in GenerateGenerators, infos \in InfoLists(outcome.info) :
        outcome' = GenerateOutcome(gen, outcome.info, infos, Generate(gen, infos))
    /\ UNCHANGED subject

NextRender ==
    \/ (Extract /\ UNCHANGED <<registryVars, exportVars>>)
    \/ (ExtractRaises /\ UNCHANGED <<registryVars, exportVars>>)
    \/ (RenderDotenv /\ UNCHANGED <<registryVars, exportVars>>)
    \/ (RenderMarkdown /\ UNCHANGED <<registryVars, exportVars>>)
    \/ (RenderGenerate /\ UNCHANGED <<registryVars, exportVars>>)
    \/ (ExtractAgain /\ UNCHANGED <<registryVars, exportVars>>)
    \/ (RenderAgain /\ UNCHANGED <<registryVars, exportVars>>)

SpecRender == InitRender /\ [][NextRender]_vars

-----------------------------------------------------------------------------
(* The functions of models.py applied to one input.                        *)

\* Path.home() of the user.
Home == AbsPath(<<"h", "u">>)

\* The default paths: relative, under the project root or equal to it, under
\* the home directory or equal to it, beside one of them with a name that
\* starts alike, and elsewhere.
DefaultPaths ==
    {RelPath(<<"x">>), RelPath(<<"h", "u", "x">>),
     AbsPath(<<"h", "u", "p", "x", "y">>), AbsPath(<<"h", "u", "p">>),
     AbsPath(<<"h", "u", "x">>), AbsPath(<<"h", "u">>), AbsPath(<<"h", "u2", "x">>),
     AbsPath(<<"h", "u", "p2", "x">>), AbsPath(<<"w", "p", "x">>), AbsPath(<<"w", "p2", "x">>),
     AbsPath(<<"w", "p">>), AbsPath(<<"e", "x">>)}

\* The settings default_path is given: none, or a project root under the home
\* directory or outside it, given absolute or relative to the working
\* directory, with the policy on or off and the alias the default one or empty.
PathSettings ==
    {None} \cup
    {Some([root_dir |-> root_dir, relative_to |-> RelativeToSettings(replace_abs_paths, alias)]) :
        root_dir \in {AbsPath(<<"h", "u", "p">>), AbsPath(<<"w", "p">>), RelPath(<<"p">>)},
        replace_abs_paths \in BOOLEAN, alias \in {"<project_dir>", ""}}

PathSubjects ==
    {[k |-> "path", default |-> default, global_settings |-> global_settings] :
        default \in DefaultPaths, global_settings \in PathSettings}

\* The annotations: the classes of FIELD_TYPE_MAP, a class it does not hold,
\* list[int], and Optional and Union of them.
PlainAnnotations ==
    {StrAnn, IntAnn, ClassAnn("float", <<"f","l","o","a","t">>),
     ClassAnn("bool", <<"b","o","o","l">>), ClassAnn("list", <<"l","i","s","t">>),
     ClassAnn("dict", <<"d","i","c","t">>),
     ClassAnn("SecretStr", <<"S","e","c","r","e","t","S","t","r">>),
     ClassAnn("K", <<"K">>), GenericAnn(ClassAnn("list", <<"l","i","s","t">>), <<IntAnn>>)}

Annotations ==
    PlainAnnotations
    \cup {UnionAnn(<<a, NoneTypeAnn>>) : a \in PlainAnnotations}
    \cup {UnionAnn(<<NoneTypeAnn, a>>) : a \in PlainAnnotations}
    \cup {UnionAnn(<<a, b>>) : a \in {IntAnn, ClassAnn("K", <<"K">>)}, b \in {StrAnn, ClassAnn("bool", <<"b","o","o","l">>)}}
    \cup {UnionAnn(<<StrAnn, IntAnn, NoneTypeAnn>>), UnionAnn(<<IntAnn, NoneTypeAnn, StrAnn>>)}

AnnotationSubjects == {[k |-> "annotation", annotation |-> a] : a \in Annotations}

InitPure ==
    /\ RegistryIdle
    /\ ExportIdle
    /\ subject \in PathSubjects \cup AnnotationSubjects
    /\ outcome = NoSubject

\* get_type_by_annotation(annotation) is called.
ApplyTypes ==
    /\ subject.k = "annotation"
    /\ outcome.k = "none"
    /\ outcome' = [k |-> "types", types |-> get_type_by_annotation(subject.annotation)]
    /\ UNCHANGED subject

\* default_path(default, global_settings) is called.
ApplyDefaultPath ==
    /\ subject.k = "path"
    /\ outcome.k = "none"
    /\ outcome' = [k |-> "path",
                   path |-> default_path(subject.default, subject.global_settings, Home)]
    /\ UNCHANGED subject

NextPure ==
    \/ (ApplyDefaultPath /\ UNCHANGED <<registryVars, exportVars>>)
    \/ (ApplyTypes /\ UNCHANGED <<registryVars, exportVars>>)

SpecPure == InitPure /\ [][NextPure]_vars

-----------------------------------------------------------------------------
(* Properties of extraction and rendering.                                 *)

\* The source field of descriptor field i: the nested models are declared last.
\* The field is excluded and the policy respect_exclude is active.
Omitted(field) == settings.respect_exclude /\ field.exclude

\* The declared fields extraction is to keep whose annotation is no model class.
PlainFields(cls) == SelectSeq(cls.fields, LAMBDA f : ~Omitted(f) /\ f.annotation.k /= "model")

\* The declared field of the i-th field descriptor.
SourceField(i) == PlainFields(subject.cls)[i]

\* The JSON text of the elements of a set in ascending order.
AscendingJson(value) == DumpJson(ListValue(SortedInts(Range(value.v))))

\* The text a default of the model is expected to be shown as.
ShownJson(value) == IF value.t = "set" THEN AscendingJson(value) ELSE value_to_jsonable(value)

\* The lines the documentation gives for the model with the required field A
\* and the field B with default 1.
DocumentedLines(mode) ==
    CASE mode = "only-required" -> << <<"A","=">> >>
      [] mode = "only-optional" -> << <<"#"," ","B","=","1">> >>
      [] mode = "all" -> << <<"A","=">>, <<"#"," ","B","=","1">> >>

\* The descriptor fields a mode is documented to keep.
KeptByMode(mode, fields) ==
    CASE mode = "only-required" -> SelectSeq(fields, LAMBDA d : is_required(d))
      [] mode = "only-optional" -> SelectSeq(fields, LAMBDA d : ~is_required(d))
      [] mode = "all" -> fields

\* C6 as stated: for the model with the required field A and the field B with
\* default 1 the dotenv generator emits A= alone in mode only-required, # B=1
\* alone in mode only-optional and both in mode all; in every model, mode
\* only-required emits a line for the required fields only and mode
\* only-optional for the fields with a default only.
C6_ModeFilter ==
    outcome.k = "dotenv" =>
        /\ subject.cls.fields = <<FieldA, FieldB>> /\ subject.cls.env_prefix = <<>>
           => outcome.lines = DocumentedLines(outcome.config.mode)
        /\ Len(outcome.lines) = Len(KeptByMode(outcome.config.mode, outcome.info.fields))

\* The variable name of a dotenv line: NAME=... or # NAME=...
LineName(line) ==
    LET body == IF Len(line) >= 2 /\ line[1] = "#" /\ line[2] = " "
                THEN SubSeq(line, 3, Len(line)) ELSE line
    IN  SubSeq(body, 1, IndexFrom(body, "=", 1) - 1)

\* The Name cell shows FOO in backquotes, once for every place that declares
\* it (alias, validation alias), and nothing else.
ShowsOnlyFoo(cell) ==
    \E n \in 1..2 : cell = JoinStr(UNION_SEPARATOR, [i \in 1..n |-> q(s_FOO)])

\* C7: a field with alias FOO is named FOO by the dotenv generator and by the
\* Markdown generator, whatever its declared name, the case of that name and
\* the prefix of the model: neither the prefix nor the declared name is part of
\* the name.
C7_AliasNaming ==
    /\ outcome.k = "dotenv" /\ outcome.config.mode = "all" =>
          /\ Len(outcome.lines) = Len(outcome.info.fields)
          /\ \A i \in 1..Len(outcome.info.fields) :
                SourceField(i).alias = Some(s_FOO) => LineName(outcome.lines[i]) = s_FOO
    /\ outcome.k = "markdown" =>
          /\ Len(outcome.rows) = Len(outcome.info.fields)
          /\ \A i \in 1..Len(outcome.info.fields) :
                SourceField(i).alias = Some(s_FOO) => ShowsOnlyFoo(outcome.rows[i].Name[1])

\* The dotenv generator has named the field foo of a model with prefix app_.
C7_Witness ==
    /\ outcome.k = "dotenv" /\ outcome.config.mode = "all"
    /\ subject.cls.env_prefix = s_app
    /\ \E i \in 1..Len(outcome.info.fields) :
          SourceField(i) = FieldFoo /\ LineName(outcome.lines[i]) = s_FOO

\* The nested delimiter a model uses for its children.
EffectiveDelimiter(cls, passed) ==
    IF ~cls.is_settings THEN passed
    ELSE IF IsNone(cls.env_nested_delimiter) THEN s_underscore
    ELSE IF cls.env_nested_delimiter[1] = <<>> THEN s_underscore
    ELSE cls.env_nested_delimiter[1]

\* The fields of a class that are nested models.
ModelFields(cls) == SelectSeq(cls.fields, LAMBDA f : ~Omitted(f) /\ f.annotation.k = "model")

\* In the descriptor tree of cls every child has the prefix of its parent, the
\* name of its field and the delimiter of its parent, in upper case.
RECURSIVE PrefixesPropagate(_, _, _)
PrefixesPropagate(cls, info, passed) ==
    /\ Len(info.child_settings) = Len(ModelFields(cls))
    /\ \A i \in 1..Len(ModelFields(cls)) :
          /\ info.child_settings[i].env_prefix =
                Upper(info.env_prefix \o ModelFields(cls)[i].name
                      \o EffectiveDelimiter(cls, passed))
          /\ PrefixesPropagate(ModelFields(cls)[i].annotation.cls, info.child_settings[i],
                               EffectiveDelimiter(cls, passed))

\* C8: the descriptor of a nested model field f has the prefix upper(P + f + D)
\* for the prefix P and the nested delimiter D of its parent, at every depth;
\* prefix APP_, field db and delimiter _ give APP_DB_.
C8_PrefixPropagation ==
    outcome.k = "info" =>
        /\ PrefixesPropagate(subject.cls, outcome.info, s_underscore)
        /\ subject.depth > 0 /\ subject.cls.env_prefix = s_APP
           /\ IsNone(subject.cls.env_nested_delimiter)
           => outcome.info.child_settings[1].env_prefix = <<"A","P","P","_","D","B","_">>

\* A model with prefix app_ and delimiter __ is extracted two levels deep.
C8_Witness ==
    /\ outcome.k = "info" /\ subject.depth = 2
    /\ subject.cls.env_prefix = s_app
    /\ outcome.info.child_settings[1].env_prefix = <<"A","P","P","_","D","B","_","_">>
    /\ outcome.info.child_settings[1].child_settings[1].env_prefix
          = <<"A","P","P","_","D","B","_","_","D","B","_","_">>

\* C9: a field descriptor is required exactly when it has no default, and it
\* has no default exactly when the source field has neither a default nor a
\* default factory; an explicit default, None included, is the one that is
\* serialised, the value of the factory only when there is no explicit default.
C9_RequiredIffNoDefault ==
    outcome.k = "info" =>
        \A i \in 1..Len(outcome.info.fields) :
            /\ is_required(outcome.info.fields[i]) <=> IsNone(outcome.info.fields[i].default)
            /\ IsNone(outcome.info.fields[i].default)
               <=> (SourceField(i).default = Undefined /\ IsNone(SourceField(i).default_factory))
            /\ SourceField(i).default /= Undefined =>
                  outcome.info.fields[i].default = Some(ShownJson(SourceField(i).default))
            /\ SourceField(i).default = Undefined /\ ~IsNone(SourceField(i).default_factory) =>
                  outcome.info.fields[i].default
                     = Some(ShownJson(SourceField(i).default_factory[1]))

\* A model with a default of None and a field with default and factory is extracted.
C9_Witness ==
    /\ outcome.k = "info"
    /\ subject.cls.fields = <<FieldC, FieldN>>
    /\ outcome.info.fields[1].default = Some(s_null)
    /\ ~is_required(outcome.info.fields[1])
    /\ outcome.info.fields[2].default = Some(<<"2">>)

\* The descriptor has no nested model and every field of it has a default.
AllOptional(info) ==
    /\ info.child_settings = <<>>
    /\ \A i \in 1..Len(info.fields) : ~is_required(info.fields[i])

\* C14 as stated: in mode only-required the dotenv generator renders a model
\* all of whose fields have defaults, and which has no nested model, with no
\* variable line and with the warning that no variables were found.
C14_EmptyOutputWarned ==
    outcome.k = "dotenv" /\ outcome.config.mode = "only-required" /\ AllOptional(outcome.info) =>
        /\ outcome.lines = <<>>
        /\ outcome.warnings = <<[w |-> "no-variables", name |-> outcome.info.name]>>

\* The rendering of a top-level descriptor that generate joins: generate_single
\* with the default level, and with level 2 in the Markdown generator.
TopRendering(gen, info) ==
    IF gen.kind = "markdown" THEN Strip(MarkdownGenerateSingle(gen.generator_config, info, 2))
    ELSE Strip(GenerateSingle(gen, info).text)

\* s ends with t.
EndsWith(s, t) == Len(s) >= Len(t) /\ SubSeq(s, Len(s) - Len(t) + 1, Len(s)) = t

\* The text ends with a newline, and what stands before it does not end with
\* whitespace.
OneFinalNewline(text) ==
    /\ Len(text) >= 1
    /\ text[Len(text)] = "\n"
    /\ Len(text) >= 2 => ~IsSpace(text[Len(text) - 1])

\* The text ends with the renderings, none of them empty, one after the other
\* with one blank line between two of them.
BlankLineSeparated(renderings, text) ==
    (renderings /= <<>> /\ \A i \in 1..Len(renderings) : renderings[i] /= <<>>)
    => EndsWith(text, JoinStr(<<"\n", "\n">>, renderings) \o <<"\n">>)

\* The renderings of the descriptors of the call of generate.
Renderings(o) == [i \in 1..Len(o.infos) |-> TopRendering(o.gen, o.infos[i])]

\* The Markdown generator in the mode that puts every field in one table.
TableOnly(gen) == gen.kind = "markdown" /\ gen.generator_config.table_only /= "no"

\* C15 as stated: for every generator the text of generate ends with exactly
\* one newline after its last visible character, and the renderings of
\* consecutive descriptors are separated by one blank line.
C15_AnyGenerator ==
    outcome.k = "generate" =>
        /\ OneFinalNewline(outcome.text)
        /\ BlankLineSeparated(Renderings(outcome), outcome.text)

\* C15: for every generator and every list of descriptors, the empty one
\* included, the text of generate ends with exactly one newline after its last
\* visible character; unless the Markdown generator makes one table of all
\* descriptors, the renderings of consecutive descriptors, none of them empty,
\* are separated by one blank line.
C15_GenerateShape ==
    outcome.k = "generate" =>
        /\ OneFinalNewline(outcome.text)
        /\ ~TableOnly(outcome.gen) => BlankLineSeparated(Renderings(outcome), outcome.text)

\* The Simple generator has rendered two descriptors, a blank line between them.
C15_Witness ==
    /\ outcome.k = "generate"
    /\ outcome.gen.kind = "simple"
    /\ Len(outcome.infos) = 2
    /\ outcome.text = TopRendering(outcome.gen, outcome.infos[1]) \o <<"\n", "\n">>
                       \o TopRendering(outcome.gen, outcome.infos[2]) \o <<"\n">>

\* t stands somewhere in s.
Contains(s, t) == \E o \in 1..(Len(s) - Len(t) + 1) : SubSeq(s, o, o + Len(t) - 1) = t

\* The name a generator shows for a field of a descriptor, as it stands in the
\* text.
ShownName(gen, info, field) ==
    CASE gen.kind = "dotenv" -> DotEnvFieldName(info, field)
      [] gen.kind = "markdown" ->
            EscapePipes(MarkdownFieldName(info, field, gen.generator_config))
      [] gen.kind = "simple" -> q(full_name(field))

\* The names the generator shows for the fields of the descriptor and of
\* every descendant of it.
RECURSIVE TreeNames(_, _)
TreeNames(gen, info) ==
    {ShownName(gen, info, info.fields[i]) : i \in 1..Len(info.fields)}
    \cup UNION {TreeNames(gen, info.child_settings[i]) : i \in 1..Len(info.child_settings)}

\* The generator renders every field, whatever its default.
RendersEveryField(gen) == gen.kind = "dotenv" => gen.generator_config.mode = "all"

\* C16 as stated: the text a generator, Markdown, dotenv or Simple, makes of
\* one descriptor shows every field of the descriptor and every field of every
\* descendant of it.
C16_DescendantsRendered ==
    outcome.k = "generate" /\ outcome.infos = <<outcome.info>> /\ RendersEveryField(outcome.gen) =>
        \A name \in TreeNames(outcome.gen, outcome.info) : Contains(outcome.text, name)

\* C17 as stated: value_to_jsonable returns a string for every default and
\* every example, so that the extraction of a model never raises.
C17_NeverRaises == outcome.k /= "raised"

\* The value a field of the model holds as its default, Undefined if none.
HeldDefault(field) ==
    IF field.default /= Undefined THEN field.default
    ELSE IF ~IsNone(field.default_factory) THEN field.default_factory[1]
    ELSE Undefined

\* Every default and example of the descriptor that is a set in the model
\* is shown as its ascending list.
SetsShownSorted(cls, info) ==
    \A i \in 1..Len(cls.fields) :
        /\ HeldDefault(cls.fields[i]).t = "set" =>
                info.fields[i].default = Some(AscendingJson(HeldDefault(cls.fields[i])))
        /\ \A j \in 1..Len(cls.fields[i].examples) :
                cls.fields[i].examples[j].t = "set" =>
                    info.fields[i].examples[j] = AscendingJson(cls.fields[i].examples[j])

SetValued(cls) == \E i \in 1..Len(cls.fields) : HeldDefault(cls.fields[i]).t = "set"

FieldNames(info) == [i \in 1..Len(info.fields) |-> info.fields[i].name]
ChildNames(info) == [i \in 1..Len(info.child_settings) |-> info.child_settings[i].name]

\* The number of times the declared field is in the descriptor: by its name
\* among the fields, by the name of its class among the children.
Occurrences(field, info) ==
    Cardinality({i \in 1..Len(info.fields) :
                    field.annotation.k /= "model" /\ info.fields[i].name = field.name})
    + Cardinality({i \in 1..Len(info.child_settings) :
                    /\ field.annotation.k = "model"
                    /\ info.child_settings[i].name = field.annotation.cls.name})

\* The descriptor of cls, and of every model below it, holds the declared
\* fields that are not omitted exactly once, the model fields among the
\* children and the others among the fields, both in declaration order.
RECURSIVE Partitioned(_, _)
Partitioned(cls, info) ==
    /\ FieldNames(info) = [i \in 1..Len(PlainFields(cls)) |-> PlainFields(cls)[i].name]
    /\ ChildNames(info)
          = [i \in 1..Len(ModelFields(cls)) |-> ModelFields(cls)[i].annotation.cls.name]
    /\ \A i \in 1..Len(cls.fields) :
          Occurrences(cls.fields[i], info) = IF Omitted(cls.fields[i]) THEN 0 ELSE 1
    /\ \A i \in 1..Len(ModelFields(cls)) :
          Partitioned(ModelFields(cls)[i].annotation.cls, info.child_settings[i])

\* C19: extraction leaves out a field with the exclude flag exactly when the
\* policy respect_exclude is active; every other declared field is in the
\* descriptor exactly once, among the children if its annotation is a model
\* class and among the fields otherwise, and both lists keep declaration order.
C19_Partition == outcome.k = "info" => Partitioned(subject.cls, outcome.info)

\* The policy is off for the model that declares an excluded model field, a
\* model field with an excluded field of its own, an excluded field, a model
\* field and a plain field: nothing is left out.
C19_Witness ==
    /\ outcome.k = "info"
    /\ subject.cls.fields = <<FieldXQueue, FieldCache, FieldX, FieldDb, FieldA>>
    /\ ~settings.respect_exclude
    /\ FieldNames(outcome.info) = << <<"x">>, s_A >>
    /\ ChildNames(outcome.info) = << <<"Q">>, <<"C","a">>, <<"D","b">> >>
    /\ FieldNames(outcome.info.child_settings[2]) = << s_A, <<"x">> >>

\* The names a validation alias declares, in their declared order; the name
\* of a path is its elements joined by dots.
ValidationNames(va) ==
    CASE va.k = "none" -> <<>>
      [] va.k = "str" -> <<va.v>>
      [] va.k = "path" -> <<JoinStr(<<".">>, va.path)>>
      [] va.k = "choices" ->
            [i \in 1..Len(va.choices) |->
                IF va.choices[i].k = "path" THEN JoinStr(<<".">>, va.choices[i].path)
                ELSE va.choices[i].v]

\* The explicit alias, if any, then the names of the validation alias.
DeclaredAliases(field) ==
    (IF IsNone(field.alias) THEN <<>> ELSE <<field.alias[1]>>)
        \o ValidationNames(field.validation_alias)

\* C20: the aliases of a field descriptor are the explicit alias, if any,
\* followed by the names of the validation alias in their declared order,
\* whether the validation alias is a string, a list of choices or a path; the
\* full name is the first alias, or the declared name when there is none.
C20_AliasOrder ==
    outcome.k = "info" =>
        \A i \in 1..Len(outcome.info.fields) :
            /\ outcome.info.fields[i].aliases = DeclaredAliases(SourceField(i))
            /\ full_name(outcome.info.fields[i])
                  = IF DeclaredAliases(SourceField(i)) = <<>> THEN SourceField(i).name
                    ELSE DeclaredAliases(SourceField(i))[1]

\* In the descriptor tree of cls a settings class has the prefix of its own
\* configuration and a plain model the prefix it was called with; the children
\* are called with the prefix of the parent, their field name and the
\* delimiter of the parent: its own for a settings class, the one it was
\* called with for a plain model.
RECURSIVE OwnConfiguration(_, _, _, _)
OwnConfiguration(cls, info, prefix, passed) ==
    /\ info.env_prefix = IF cls.is_settings THEN cls.env_prefix ELSE prefix
    /\ Len(info.child_settings) = Len(ModelFields(cls))
    /\ \A i \in 1..Len(ModelFields(cls)) :
          OwnConfiguration(ModelFields(cls)[i].annotation.cls, info.child_settings[i],
                           Upper(info.env_prefix \o ModelFields(cls)[i].name
                                 \o EffectiveDelimiter(cls, passed)),
                           EffectiveDelimiter(cls, passed))

\* C21: the descriptor of a settings class has the env_prefix of its own
\* configuration and gives its children its own nested delimiter, also when it
\* is reached as a nested field with a non-empty prefix; a plain model uses
\* the prefix and the delimiter of the caller unchanged.
C21_OwnConfiguration ==
    outcome.k = "info" => OwnConfiguration(subject.cls, outcome.info, <<>>, s_underscore)

\* The lines of a text that ends with a newline.
NewlinePlaces(text) == SelectSeq([i \in 1..Len(text) |-> i], LAMBDA i : text[i] = "\n")
LinesAt(text, places) == [k \in 1..Len(places) |-> SubSeq(text, (IF k = 1 THEN 0 ELSE places[k - 1]) + 1, places[k] - 1)]
TextLines(text) == LinesAt(text, NewlinePlaces(text))

\* s starts with t.
StartsWith(s, t) == Len(s) >= Len(t) /\ SubSeq(s, 1, Len(t)) = t

\* The fields of a descriptor tree in pre-order, each with the prefix of the
\* descriptor that owns it: [env_prefix, field].
RECURSIVE OwnedFields(_)
OwnedFields(info) ==
    [i \in 1..Len(info.fields) |-> [env_prefix |-> info.env_prefix, field |-> info.fields[i]]]
    \o Flatten([i \in 1..Len(info.child_settings) |-> OwnedFields(info.child_settings[i])])

\* The fields of every tree of the list, tree after tree.
AllOwnedFields(infos) == Flatten([i \in 1..Len(infos) |-> OwnedFields(infos[i])])

\* The Name cell of the table for a field: the prefix of its owner and its
\* name in upper case; as everywhere, a field with aliases shows its aliases.
NameCell(owned) ==
    IF owned.field.aliases = <<>> THEN q(Upper(owned.env_prefix \o owned.field.name))
    ELSE EscapePipes(Upper(JoinStr(UNION_SEPARATOR,
                                   [i \in 1..Len(owned.field.aliases) |-> q(owned.field.aliases[i])])))

\* The lines are those of one table: a header line, a rule, and one line for
\* each of the fields, in their order, that starts with the name of the field.
OneTable(lines, fields) ==
    /\ Len(lines) = 2 + Len(fields)
    /\ \A k \in 1..Len(lines) : StartsWith(lines[k], <<"|">>)
    /\ StartsWith(lines[1], <<"|", " ", "N", "a", "m", "e", " ">>)
    /\ \A j \in 1..Len(lines[2]) : lines[2][j] \in {"|", "-"}
    /\ \A i \in 1..Len(fields) :
          StartsWith(lines[2 + i], <<"|", " ">> \o NameCell(fields[i]) \o <<" ">>)

RECURSIVE TreeHeadings(_, _)
TreeHeadings(info, level) ==
    <<Repeat("#", level) \o <<" ">> \o info.name>>
    \o Flatten([i \in 1..Len(info.child_settings) |->
                  TreeHeadings(info.child_settings[i], level + 1)])

\* The lines that are headings.
Headings(lines) == SelectSeq(lines, LAMBDA l : StartsWith(l, <<"#">>))

\* The headings of the text are those of the file prefix and then, for every
\* tree, one for each descriptor: d + 2 characters # at depth d.
HeadingDepths(gen, infos, text) ==
    Headings(TextLines(text))
        = Headings(TextLines(gen.generator_config.file_prefix))
          \o Flatten([i \in 1..Len(infos) |-> TreeHeadings(infos[i], 2)])

\* C26: outside table-only mode the Markdown generator emits exactly one
\* heading for every descriptor, with level characters #, the children one
\* level deeper and the top-level descriptors at level 2: a descriptor at
\* depth d of its tree has a heading of d + 2 characters #.
C26_HeadingDepth ==
    outcome.k = "generate" /\ outcome.gen.kind = "markdown" /\ ~TableOnly(outcome.gen)
        => HeadingDepths(outcome.gen, outcome.infos, outcome.text)

\* A tree two levels deep has the headings ## S, ### Db and #### Db.
C26_Witness ==
    /\ outcome.k = "generate" /\ outcome.gen.kind = "markdown" /\ ~TableOnly(outcome.gen)
    /\ subject.depth = 2 /\ outcome.infos = <<outcome.info>>
    /\ outcome.gen.generator_config.file_prefix = <<>>
    /\ Headings(TextLines(outcome.text))
          = << <<"#","#"," ","S">>, <<"#","#","#"," ","D","b">>, <<"#","#","#","#"," ","D","b">> >>

\* The examples the declared field gives, as texts, in their order.
DeclaredExamples(field) == [j \in 1..Len(field.examples) |-> ShownJson(field.examples[j])]

\* C27: when the field declares no examples and has a default, the examples
\* of the descriptor are the list of that default alone, whatever the text of
\* the default, the empty text included; when it declares none and is
\* required, there are no examples; declared examples are kept in their order
\* and the default never takes their place.
C27_Examples ==
    outcome.k = "info" =>
        \A i \in 1..Len(outcome.info.fields) :
            outcome.info.fields[i].examples =
                IF SourceField(i).examples /= <<>> THEN DeclaredExamples(SourceField(i))
                ELSE IF IsNone(outcome.info.fields[i].default) THEN <<>>
                ELSE <<outcome.info.fields[i].default[1]>>

\* The same, for the fields whose default is not the empty text.
C27_NonEmptyDefault ==
    outcome.k = "info" =>
        \A i \in 1..Len(outcome.info.fields) :
            outcome.info.fields[i].default /= Some(<<>>) =>
                outcome.info.fields[i].examples =
                    IF SourceField(i).examples /= <<>> THEN DeclaredExamples(SourceField(i))
                    ELSE IF IsNone(outcome.info.fields[i].default) THEN <<>>
                    ELSE <<outcome.info.fields[i].default[1]>>

\* The Name cell the Markdown generator with to_upper_case, its default,
\* makes for field i of the descriptor.
MarkdownNameCell(i) ==
    TableRows(MarkdownSettings(TRUE, "Configuration.md", <<>>, <<OutA>>, <<>>, TRUE,
                               TableHeaders, "no", None),
              outcome.info)[i].Name[1]

\* The dotenv line and the Markdown row of field i name the variable
\* env_prefix followed by the field name in upper case.
SameVariable(i) ==
    /\ q(LineName(outcome.lines[i])) = MarkdownNameCell(i)
    /\ LineName(outcome.lines[i]) = outcome.info.env_prefix \o Upper(outcome.info.fields[i].name)

\* C28: for every field without aliases the name in the Name column of the
\* Markdown generator is the name on the line of the dotenv generator,
\* whatever the prefix of the descriptor, a top-level prefix that is not in
\* upper case included, and both are env_prefix followed by the field name in
\* upper case.
C28_SameVariable ==
    outcome.k = "dotenv" /\ outcome.config.mode = "all" =>
        \A i \in 1..Len(outcome.info.fields) :
            outcome.info.fields[i].aliases = <<>> => SameVariable(i)

\* The same, for the descriptors whose prefix is in upper case.
C28_UpperCasePrefix ==
    outcome.k = "dotenv" /\ outcome.config.mode = "all"
        /\ outcome.info.env_prefix = Upper(outcome.info.env_prefix) =>
        \A i \in 1..Len(outcome.info.fields) :
            outcome.info.fields[i].aliases = <<>> => SameVariable(i)

\* The lines of a dotenv text that give a variable: NAME=... or # NAME=...,
\* which are the lines that are neither blank nor a group header.
VariableLines(text) ==
    SelectSeq(TextLines(text), LAMBDA l : l /= <<>> /\ ~StartsWith(l, <<"#", "#", "#">>))

\* The number of warnings of a rendering that are about the descriptor
\* itself: all of them but those of the renderings of its children.
RECURSIVE SumLen(_)
SumLen(seqs) == IF seqs = <<>> THEN 0 ELSE Len(Head(seqs)) + SumLen(Tail(seqs))
OwnWarnings(config, info, rendered) ==
    Len(rendered.warnings)
    - SumLen([i \in 1..Len(info.child_settings) |->
                DotEnvGenerateSingle(config, info.child_settings[i]).warnings])

\* The rendering of the descriptor is warned about exactly when it holds no
\* variable line.
WarnedIffEmpty(config, info, rendered) ==
    OwnWarnings(config, info, rendered) = (IF VariableLines(rendered.text) = <<>> THEN 1 ELSE 0)

\* The same holds for the descriptor and for every descriptor below it.
RECURSIVE WarnedIffEmptyTree(_, _)
WarnedIffEmptyTree(config, info) ==
    /\ WarnedIffEmpty(config, info, DotEnvGenerateSingle(config, info))
    /\ \A i \in 1..Len(info.child_settings) :
          WarnedIffEmptyTree(config, info.child_settings[i])

\* C29: the dotenv generator gives the warning that no environment variables
\* were found for a descriptor exactly when neither the descriptor nor any
\* descriptor below it gave a line NAME= or # NAME=value, with and without
\* group headers: the header of an empty child is no content.
C29_WarnedIffNoVariable ==
    outcome.k = "dotenv" => WarnedIffEmptyTree(outcome.config, outcome.info)

\* The same, without group headers.
C29_WithoutGroups ==
    outcome.k = "dotenv" /\ ~outcome.config.split_by_group
        => WarnedIffEmptyTree(outcome.config, outcome.info)

\* No name is in the list twice.
NoDuplicates(names) == \A i, j \in 1..Len(names) : i /= j => names[i] /= names[j]

\* The places of the cell where the text stands.
Places(cell, text) == {n \in 1..(Len(cell) - Len(text) + 1) : SubSeq(cell, n, n + Len(text) - 1) = text}

\* An alias as the Name column shows it.
ShownAlias(config, alias) == IF config.to_upper_case THEN Upper(q(alias)) ELSE q(alias)

\* C30: the aliases of a field descriptor hold no name twice, also when the
\* explicit alias and the validation alias of the field are the same name, or
\* the explicit alias is among the choices of the validation alias; the Name
\* column of the Markdown generator shows no alias twice.
C30_NoDuplicateAliases ==
    /\ outcome.k = "info" =>
          \A i \in 1..Len(outcome.info.fields) : NoDuplicates(outcome.info.fields[i].aliases)
    /\ outcome.k = "markdown" =>
          \A i \in 1..Len(outcome.rows) :
              \A j \in 1..Len(outcome.info.fields[i].aliases) :
                  Cardinality(Places(outcome.rows[i].Name[1],
                                     ShownAlias(outcome.config, outcome.info.fields[i].aliases[j]))) <= 1

-----------------------------------------------------------------------------
(* Properties of the functions of models.py.                               *)

\* Every component of dir is the component of path at the same place.
Under(path, dir) ==
    /\ path.abs /\ dir.abs
    /\ Len(dir.parts) <= Len(path.parts)
    /\ \A i \in 1..Len(dir.parts) : path.parts[i] = dir.parts[i]

\* The components of path below dir.
Below(path, dir) == [i \in 1..(Len(path.parts) - Len(dir.parts)) |-> path.parts[Len(dir.parts) + i]]

\* The project-root rule applies to the subject: the policy is on and the
\* default is under the project root.
RootRule ==
    /\ ~IsNone(subject.global_settings)
    /\ subject.global_settings[1].relative_to.replace_abs_paths
    /\ Under(subject.default, AbsoluteResolve(subject.global_settings[1].root_dir))

\* The alias of the subject as the leading components of a path.
AliasParts ==
    IF subject.global_settings[1].relative_to.alias = "" THEN <<>>
    ELSE <<subject.global_settings[1].relative_to.alias>>

\* C23: default_path returns a path that is not absolute unchanged; an
\* absolute path under the project root becomes alias/relative-part when
\* replace_abs_paths is on, also when it is under the home directory; an
\* absolute path under the home directory that the project-root rule does not
\* rewrite becomes ~/relative-part; any other path is unchanged, and under is
\* by whole components: /h/u2/x is not under /h/u.
C23_PathRedaction ==
    outcome.k = "path" =>
        /\ outcome.path =
              IF ~subject.default.abs THEN subject.default
              ELSE IF RootRule
              THEN RelPath(AliasParts
                           \o Below(subject.default,
                                    AbsoluteResolve(subject.global_settings[1].root_dir)))
              ELSE IF Under(subject.default, Home)
              THEN RelPath(<<"~">> \o Below(subject.default, Home))
              ELSE subject.default
        /\ subject.default = AbsPath(<<"h", "u2", "x">>) => outcome.path = subject.default

\* A default under the project root, itself under the home directory, has
\* been rewritten with the alias of the project root.
C23_Witness ==
    /\ outcome.k = "path"
    /\ subject.default = AbsPath(<<"h", "u", "p", "x", "y">>)
    /\ RootRule /\ Under(subject.default, Home)
    /\ outcome.path = RelPath(<<"<project_dir>", "x", "y">>)

\* The alternatives of an annotation that are not the null type: those of a
\* union in declaration order, the annotation itself otherwise.
NonNull(annotation) ==
    IF annotation.k = "union"
    THEN SelectSeq(annotation.args, LAMBDA a : a.k \notin {"None", "NoneType"})
    ELSE <<annotation>>

\* The label of an annotation that is no union: that of FIELD_TYPE_MAP for
\* the class, or the origin of a generic alias, else the declared name.
LabelOf(annotation) ==
    FieldTypeMapGet(IF annotation.k = "generic" THEN annotation.origin ELSE annotation)

\* C24: get_type_by_annotation gives no label for the null alternative of
\* Optional[T] or T | None, only the labels of T; for a union it gives the
\* labels of the alternatives that are not null in declaration order; a class
\* of FIELD_TYPE_MAP has the label of the map, another class its declared name.
C24_TypeLabels ==
    outcome.k = "types" =>
        outcome.types = [i \in 1..Len(NonNull(subject.annotation)) |->
                            LabelOf(NonNull(subject.annotation)[i])]

\* The same for the annotations without a null alternative.
C24_NoNullAlternative ==
    outcome.k = "types" /\ NonNull(subject.annotation)
                            = (IF subject.annotation.k = "union" THEN subject.annotation.args
                               ELSE <<subject.annotation>>)
        => outcome.types = [i \in 1..Len(NonNull(subject.annotation)) |->
                                LabelOf(NonNull(subject.annotation)[i])]


====
